---- MODULE Spec2Model ----
(***************************************************************************)
(* A model of the redback / grb_bilby fitting and model-comparison         *)
(* pipeline: fit_model and its per-transient fitters (redback/sampler.py), *)
(* the result reader and Bayes-factor calculator                           *)
(* (grb_bilby/analysis/Analysis.py) and the kilonova ejecta relations      *)
(* (redback/ejecta_relations.py).                                          *)
(*                                                                         *)
(* The file system is a set of directories and a map from file paths to   *)
(* persisted results.  A path is a sequence of components; a component is  *)
(* the string the code builds ("GRB" + name, label + "_result." + format). *)
(* Python objects that are passed by reference (bilby PriorDict) live in   *)
(* a heap and are named by a reference.                                    *)
(***************************************************************************)
EXTENDS Integers, Sequences, FiniteSets, TLC

VARIABLES
    dirs,     \* the directories that exist
    files,    \* file path -> persisted result, for the files that exist
    heap,     \* prior reference -> PriorDict (parameter name -> prior)
    fit,      \* the running (or last finished) fit_model call
    cmp,      \* the last read_result / calculate_BF call
    ncalls,   \* calls made so far
    ej,       \* the ejecta-relation object under construction or evaluation
    mk,       \* the concurrent directory creations, one per process
    ag,       \* the afterglow-model calls of the workers and the solver's log
    rd,       \* the concurrent read_result calls, one per process
    sw        \* the running (or last finished) SwiftDataGetter.collect_data call

vars == <<dirs, files, heap, fit, cmp, ncalls, ej, mk, ag, rd, sw>>

-----------------------------------------------------------------------------
(* Bounds and input sets *)

MaxCalls == 2

Names == {"140903A"}
GRBs == Names \cup {"170817A"}
Outdirs == {"."}
\* data_mode is any string the caller passes: one the docstring lists, and one
\* it does not
DataModes == {"flux", "magnitude"}
\* a transient named with its GRB prefix, as kilonovae of a GRB are
PrefixedNames == {"GRB" \o n : n \in Names}
SaveFormats == {"json"}
LogEvidences == {-4}
PosteriorRows == {3}

\* Transient objects: the class, in tenths the measured photon index, and the
\* two flags that say which kind of data the object holds.
Transient(class, photon_index) ==
    [class |-> class, photon_index |-> photon_index, flux_density_data |-> FALSE,
     photometry_data |-> FALSE]

\* a transient holding flux-density or photometry data
DataTransient(class, flux_density_data, photometry_data) ==
    [Transient(class, 15) EXCEPT !.flux_density_data = flux_density_data,
                                 !.photometry_data = photometry_data]

\* the arrays of a transient: x, x_err, y, y_err, and bin_size of a prompt
\* time series; get_filtered_data() keeps the epochs of the active bands
\* (here the first and the third)
TransientArrays ==
    [x |-> <<1, 2, 3>>, x_err |-> <<0, 0, 0>>, y |-> <<10, 20, 30>>,
     y_err |-> <<1, 2, 3>>, bin_size |-> 1]
get_filtered_data ==
    [x |-> <<1, 3>>, x_err |-> <<0, 0>>, y |-> <<10, 30>>, y_err |-> <<1, 3>>]

\* the extra keyword arguments (**kwargs) of a fit_model call: the keywords
\* given and their values
Kwargs(keys, likelihood, integrated_rate_function) ==
    [keys |-> keys, likelihood |-> likelihood,
     integrated_rate_function |-> integrated_rate_function]
NoKwargs == Kwargs({}, "None", TRUE)
KwargsGiven ==
    {Kwargs({"likelihood"}, "CallerLikelihood", TRUE),
     Kwargs({"integrated_rate_function"}, "None", FALSE)}

Transients ==
    {Transient("Afterglow", pi) : pi \in {-5, 0, 15}}
    \cup {Transient(c, 15) : c \in {"Kilonova", "PromptTimeSeries", "Supernova", "TDE", "Transient"}}

\* A model argument is a name string or a callable (a function object).
ModelStr(n) == [is_str |-> TRUE, v |-> n]
ModelFn(n) == [is_str |-> FALSE, v |-> n]

RegisteredNames == {"tophat", "cocoon"}
ModelArgs == {ModelStr("tophat"), ModelFn("cocoon"), ModelStr("nomodel")}

\* bilby priors, numbers in tenths.
Uniform(minimum, maximum, name) ==
    [dist |-> "Uniform", p1 |-> minimum, p2 |-> maximum, name |-> name]
Gaussian(mu, sigma) ==
    [dist |-> "Gaussian", p1 |-> mu, p2 |-> sigma, name |-> "None"]

\* The prior objects the caller builds and holds.
PriorIds == {"P1"}
CallerPrior == [p \in PriorIds |-> [alpha_1 |-> Uniform(-200, 0, "alpha_1"),
                                    p0 |-> Uniform(1, 100, "p0")]]

-----------------------------------------------------------------------------
(* File system *)

\* every non-empty prefix of a path: what mkdir(parents=True) / os.makedirs create
Prefixes(path) == {SubSeq(path, 1, k) : k \in 1..Len(path)}

Exists(ds, fs, path) == path \in ds \/ path \in DOMAIN fs

\* Path(outdir).mkdir(parents=True, exist_ok=True)
Mkdir(ds, path) == ds \cup Prefixes(path)

WriteFile(fs, path, content) ==
    [p \in DOMAIN fs \cup {path} |-> IF p = path THEN content ELSE fs[p]]

ResultRecord(log_evidence, nrows) == [log_evidence |-> log_evidence, nrows |-> nrows]
NoResult == ResultRecord(0, 0)

\* The store the program starts from: results written by earlier runs under
\* the names read_result looks for.
LegacyDir(model) == <<".", "GRB140903A", model>>
InitFiles ==
    (LegacyDir("tophat") \o <<"result_result.json">>) :> ResultRecord(-5, 2)
    @@ (LegacyDir("cocoon") \o <<"result_result.json">>) :> ResultRecord(-3, 2)
    @@ (LegacyDir("tophat") \o <<"photon_index_result.json">>) :> ResultRecord(-7, 2)
InitDirs == Prefixes(LegacyDir("tophat")) \cup Prefixes(LegacyDir("cocoon"))

-----------------------------------------------------------------------------
(* fit_model: redback/sampler.py *)

\* redback.model_library.all_models_dict: model name -> light-curve function
all_models_dict == [n \in RegisteredNames |-> ModelFn(n)]

\* model.__name__ of a light-curve function
FunctionName(model) == model.v

\* str(model), as the f-string of line 47 formats it
Str(model) == IF model.is_str THEN model.v ELSE "<function " \o model.v \o ">"

\* the prior files shipped in the package's Priors directory, one per model
PriorFiles == {"Priors/" \o n \o ".prior" : n \in RegisteredNames}
PackagedPrior == [alpha_1 |-> Uniform(-100, 50, "alpha_1"), p0 |-> Uniform(1, 100, "p0")]

IsLookupError(e) == e \in {"KeyError", "IndexError"}

\* a likelihood object: its class and what it was built from
NoLikelihood == [class |-> ""]

NoSamplerArgs ==
    [priors |-> PackagedPrior, label |-> "", outdir |-> <<>>, likelihood |-> NoLikelihood,
     save |-> ""]

\* the arguments of a fit_model call
FitArgs(name, transient, model, outdir, prior, use_photon_index_prior, data_mode, save_format, kwargs) ==
    [name |-> name, transient |-> transient, model |-> model, outdir |-> outdir,
     prior |-> prior, use_photon_index_prior |-> use_photon_index_prior,
     data_mode |-> data_mode, save_format |-> save_format, kwargs |-> kwargs]

\* the identity key of a persisted result: (transient id, model name, label)
ResultKey(name, model_name, label) == <<name, model_name, label>>

\* the result the caller's previous fit persisted: its key and its file
NoPrev == [key |-> <<>>, written |-> <<>>]

\* what bilby.run_sampler can raise
SamplerErrors == {"SamplerFailure", "RuntimeError"}

\* A call: its arguments, the locals that are rebound (model, prior, outdir,
\* label, likelihood), what it raised or returned, the sampler invocations it
\* made and what the sampler raised, the steps it has taken, the file system
\* it started from, the result persisted by the fit before it, the prior it
\* was given (prior0: the entries of the prior object when the fitter got it),
\* the prior file it asked for and the attributes of the transient it read.
IdleFit ==
    [pc |-> "idle",
     args |-> FitArgs("", Transient("", 0), ModelStr(""), "", "None", FALSE, "", "", NoKwargs),
     model |-> ModelStr(""), prior |-> "None", outdir |-> <<>>,
     fn |-> "", label |-> "", likelihood |-> NoLikelihood,
     prior0 |-> PackagedPrior, prior_file |-> "", reads |-> {},
     raised |-> "none", returned |-> "pending", result |-> NoResult,
     sampler_calls |-> 0, sampler_args |-> NoSamplerArgs, sampler_raised |-> "none",
     written |-> <<>>, trace |-> <<>>, dirs0 |-> {}, files0 |-> <<>>, prev |-> NoPrev]

IdleCmp ==
    [op |-> "none", model1 |-> "", model2 |-> "", GRB |-> "", path |-> "",
     use_photon_index_prior |-> FALSE, raised |-> "none", missing |-> <<>>,
     returned |-> "pending", logBF |-> 0, result |-> NoResult, read |-> <<>>]

\* Raise with the error caught and a generic one raised in its place
Raise_Wrapped(f, error) ==
    [f EXCEPT !.pc = "done", !.raised = "FitError", !.returned = "raised"]

Raise(f, error) == [f EXCEPT !.pc = "done", !.raised = error, !.returned = "raised"]

\* lines 19-21: the call
FitModel(name, transient, model, outdir, prior, use_photon_index_prior, data_mode, save_format, kwargs) ==
    /\ fit.pc \in {"idle", "done"}
    /\ ncalls < MaxCalls
    /\ ncalls' = ncalls + 1
    /\ fit' = [IdleFit EXCEPT !.pc = "L43",
                              !.args = FitArgs(name, transient, model, outdir, prior,
                                               use_photon_index_prior, data_mode,
                                               save_format, kwargs),
                              !.model = model, !.prior = prior, !.outdir = <<outdir>>,
                              !.dirs0 = dirs, !.files0 = files,
                              !.prev = IF fit.returned = "result"
                                       THEN [key |-> ResultKey(fit.args.name,
                                                               FunctionName(fit.model),
                                                               fit.label),
                                             written |-> fit.written]
                                       ELSE fit.prev]
    /\ cmp' = IdleCmp
    /\ UNCHANGED <<dirs, files, heap, ej, mk, ag, rd, sw>>

\* The calls made: every combination of the arguments that steer the control
\* flow, with the default data_mode, and, for one model and the caller's prior,
\* every combination of the arguments the result key is built from; the fits
\* of transients holding flux-density or photometry data; the fits with an extra
\* keyword; and the kilonova and prompt fits of a transient with a negative
\* photon index.
FlowCalls ==
    {FitArgs(name, transient, model, outdir, prior, use_photon_index_prior, "flux", save_format, NoKwargs) :
        name \in Names, transient \in Transients, model \in ModelArgs, outdir \in Outdirs,
        prior \in PriorIds \cup {"None"}, use_photon_index_prior \in BOOLEAN,
        save_format \in SaveFormats}
KeyCalls ==
    {FitArgs(name, Transient(class, 15), ModelFn("cocoon"), outdir, prior, use_photon_index_prior, data_mode, save_format, NoKwargs) :
        name \in Names \cup PrefixedNames, class \in {"Afterglow", "Kilonova"},
        outdir \in Outdirs, prior \in PriorIds, use_photon_index_prior \in BOOLEAN,
        data_mode \in DataModes, save_format \in SaveFormats}
DataCalls ==
    {FitArgs(name, DataTransient(class, fd, ~fd), ModelFn("cocoon"), outdir, prior, FALSE, "flux", save_format, NoKwargs) :
        name \in Names, class \in {"Afterglow", "Kilonova"}, fd \in BOOLEAN,
        outdir \in Outdirs, prior \in PriorIds, save_format \in SaveFormats}
KwargCalls ==
    {FitArgs(name, Transient(class, 15), ModelFn("cocoon"), outdir, prior, FALSE, "flux", save_format, kwargs) :
        name \in Names, class \in {"Afterglow", "Kilonova", "PromptTimeSeries"},
        outdir \in Outdirs, prior \in PriorIds, save_format \in SaveFormats,
        kwargs \in KwargsGiven}
FrameCalls ==
    {FitArgs(name, Transient(class, -5), ModelFn("cocoon"), outdir, prior, TRUE, "flux", save_format, NoKwargs) :
        name \in Names, class \in {"Kilonova", "PromptTimeSeries"},
        outdir \in Outdirs, prior \in PriorIds, save_format \in SaveFormats}
FitCalls == FlowCalls \cup KeyCalls \cup DataCalls \cup KwargCalls \cup FrameCalls

\* LookupModel without the failing lookup (all_models_dict.get(model, model)):
\* an unregistered name goes on into the fit.
LookupModel_Unchecked(model) ==
    IF model.is_str /\ model.v \in DOMAIN all_models_dict
    THEN [raised |-> "none", model |-> all_models_dict[model.v]]
    ELSE [raised |-> "none", model |-> model]

\* lines 43-44: model = all_models_dict[model] when the model is given by name
LookupModel(model) ==
    IF model.is_str
    THEN IF model.v \in DOMAIN all_models_dict
         THEN [raised |-> "none", model |-> all_models_dict[model.v]]
         ELSE [raised |-> "KeyError", model |-> model]
    ELSE [raised |-> "none", model |-> model]

ResolveModel ==
    /\ fit.pc = "L43"
    /\ LET r == LookupModel(fit.model)
           f == [fit EXCEPT !.trace = Append(@, "lookup")]
       IN fit' = IF r.raised # "none"
                 THEN Raise(f, r.raised)
                 ELSE [f EXCEPT !.pc = "L46", !.model = r.model]
    /\ UNCHANGED <<dirs, files, heap, cmp, ncalls, ej, mk, ag, rd, sw>>

\* line 47: the file name bilby.prior.PriorDict is given
PriorFileName(model) == "Priors/" \o Str(model) \o ".prior"

\* lines 46-47: with prior=None the prior is read from the package's prior file
LoadPrior ==
    /\ fit.pc = "L46"
    /\ IF fit.prior # "None"
       THEN /\ fit' = [fit EXCEPT !.pc = "L49"]
            /\ heap' = heap
       ELSE LET f == [fit EXCEPT !.trace = Append(@, "prior_file"),
                                 !.prior_file = PriorFileName(fit.model)]
            IN IF PriorFileName(fit.model) \in PriorFiles
               THEN /\ fit' = [f EXCEPT !.pc = "L49", !.prior = "Loaded"]
                    /\ heap' = ("Loaded" :> PackagedPrior) @@ heap
               ELSE /\ fit' = Raise(f, "FileNotFoundError")
                    /\ heap' = heap
    /\ UNCHANGED <<dirs, files, cmp, ncalls, ej, mk, ag, rd, sw>>

\* DispatchTarget with an afterglow sent to the kilonova fitter
DispatchTarget_GrbAsKilonova(transient) ==
    CASE transient.class \in {"Afterglow", "Kilonova"} -> "_fit_kilonova"
      [] transient.class = "PromptTimeSeries" -> "_fit_prompt"
      [] transient.class = "Supernova" -> "_fit_supernova"
      [] transient.class = "TDE" -> "_fit_tde"
      [] OTHER -> "raise"

\* DispatchTarget with a kilonova sent to the afterglow fitter
DispatchTarget_KilonovaAsGrb(transient) ==
    CASE transient.class \in {"Afterglow", "Kilonova"} -> "_fit_grb"
      [] transient.class = "PromptTimeSeries" -> "_fit_prompt"
      [] transient.class = "Supernova" -> "_fit_supernova"
      [] transient.class = "TDE" -> "_fit_tde"
      [] OTHER -> "raise"

\* DispatchTarget with the last elif written as else: every transient that is
\* none of the first four kinds is fitted as a kilonova.
DispatchTarget_FallThrough(transient) ==
    CASE transient.class = "Afterglow" -> "_fit_grb"
      [] transient.class = "PromptTimeSeries" -> "_fit_prompt"
      [] transient.class = "Supernova" -> "_fit_supernova"
      [] transient.class = "TDE" -> "_fit_tde"
      [] OTHER -> "_fit_kilonova"

\* lines 49-76: the isinstance chain
DispatchTarget(transient) ==
    CASE transient.class = "Afterglow" -> "_fit_grb"
      [] transient.class = "Kilonova" -> "_fit_kilonova"
      [] transient.class = "PromptTimeSeries" -> "_fit_prompt"
      [] transient.class = "Supernova" -> "_fit_supernova"
      [] transient.class = "TDE" -> "_fit_tde"
      [] OTHER -> "raise"

\* lines 49-76, and the bodies of _fit_supernova and _fit_tde (lines 179-184),
\* which are "pass"
Dispatch ==
    /\ fit.pc = "L49"
    /\ LET target == DispatchTarget(fit.args.transient)
           f == [fit EXCEPT !.trace = Append(@, "dispatch"), !.fn = target,
                            !.prior0 = heap[fit.prior]]
       IN fit' = CASE target = "raise" -> Raise(f, "ValueError")
                   [] target \in {"_fit_supernova", "_fit_tde"} ->
                        [f EXCEPT !.pc = "done", !.returned = "None"]
                   [] target = "_fit_grb" -> [f EXCEPT !.pc = "L82"]
                   [] OTHER -> [f EXCEPT !.pc = "mkdir"]
    /\ UNCHANGED <<dirs, files, heap, cmp, ncalls, ej, mk, ag, rd, sw>>

\* PhotonIndexPrior with the comparison written <= : a photon index of exactly
\* 0 gets the uniform prior.
PhotonIndexPrior_Inclusive(photon_index) ==
    IF photon_index <= 0
    THEN Uniform(-100, -5, "alpha_1")
    ELSE Gaussian(-(photon_index + 10), 1)

\* lines 83-88: the prior put on alpha_1 (photon index and prior numbers in tenths)
PhotonIndexPrior(photon_index) ==
    IF photon_index < 0
    THEN Uniform(-100, -5, "alpha_1")
    ELSE Gaussian(-(photon_index + 10), 1)

\* lines 82-88 of _fit_grb: prior['alpha_1'] = ... on the object it was passed
FitGrbPrior ==
    /\ fit.pc = "L82"
    /\ IF fit.args.use_photon_index_prior
       THEN /\ heap' = [heap EXCEPT ![fit.prior].alpha_1 =
                                        PhotonIndexPrior(fit.args.transient.photon_index)]
            /\ fit' = [fit EXCEPT !.pc = "mkdir", !.trace = Append(@, "alpha_1"),
                                   !.reads = @ \cup {"photon_index"}]
       ELSE /\ heap' = heap
            /\ fit' = [fit EXCEPT !.pc = "mkdir"]
    /\ UNCHANGED <<dirs, files, cmp, ncalls, ej, mk, ag, rd, sw>>

\* OutputDirectory with the GRB prefix for every kind
OutputDirectory_AlwaysPrefixed(fn, outdir, name, model) ==
    outdir \o <<"GRB" \o name, FunctionName(model)>>

\* lines 91, 123, 155: outdir = f"{outdir}/GRB{name}/{model.__name__}" in _fit_grb
\* and _fit_prompt, f"{outdir}/{name}/{model.__name__}" in _fit_kilonova
OutputDirectory(fn, outdir, name, model) ==
    IF fn = "_fit_kilonova"
    THEN outdir \o <<name, FunctionName(model)>>
    ELSE outdir \o <<"GRB" \o name, FunctionName(model)>>

\* lines 91-92, 123-124, 155-156
FitMkdir ==
    /\ fit.pc = "mkdir"
    /\ LET outdir == OutputDirectory(fit.fn, fit.outdir, fit.args.name, fit.model)
       IN /\ dirs' = Mkdir(dirs, outdir)
          /\ fit' = [fit EXCEPT !.pc = "likelihood", !.outdir = outdir,
                                !.trace = Append(@, "mkdir")]
    /\ UNCHANGED <<files, heap, cmp, ncalls, ej, mk, ag, rd, sw>>

\* Label without the suffix
Label_NoSuffix(data_mode, use_photon_index_prior) == data_mode

\* lines 94-96, 126-128, 158-160
Label(data_mode, use_photon_index_prior) ==
    IF use_photon_index_prior THEN data_mode \o "_photon_index" ELSE data_mode

\* lines 103, 135, 162
LikelihoodClass(fn) ==
    IF fn = "_fit_prompt" THEN "PoissonLikelihood" ELSE "GaussianLikelihood"

\* the value of a keyword: kwargs.get(key, default)
KwargsGet(kwargs, key, default) == IF key \in kwargs.keys THEN kwargs[key] ELSE default

\* the keywords left in **kwargs of a fitter: _fit_prompt binds
\* integrated_rate_function to its own parameter (line 150)
FitterKwargs(fn, kwargs) ==
    IF fn = "_fit_prompt"
    THEN [kwargs EXCEPT !.keys = @ \ {"integrated_rate_function"}]
    ELSE kwargs

\* LikelihoodData that never filters
LikelihoodData_Unfiltered(transient) == TransientArrays

\* lines 98-101, 130-133: the data of an afterglow or kilonova fit
LikelihoodData(transient) ==
    IF transient.flux_density_data \/ transient.photometry_data
    THEN get_filtered_data
    ELSE TransientArrays

\* the attributes of the transient lines 98-101 and 130-133 read
LikelihoodReads(transient) ==
    {"flux_density_data"}
    \cup (IF transient.flux_density_data THEN {} ELSE {"photometry_data"})
    \cup (IF transient.flux_density_data \/ transient.photometry_data
          THEN {"get_filtered_data"}
          ELSE {"x", "x_err", "y", "y_err"})

\* line 103, 135: GaussianLikelihood(x=x, y=y, sigma=y_err, function=model, ...)
GaussianLikelihood(data, model) ==
    [class |-> LikelihoodClass("_fit_grb"), x |-> data.x, y |-> data.y,
     sigma |-> data.y_err, function |-> FunctionName(model)]

\* lines 162-164: PoissonLikelihood(time=transient.x, counts=transient.y,
\* dt=transient.bin_size, function=model, integrated_rate_function=...)
PoissonLikelihood(model, integrated_rate_function) ==
    [class |-> LikelihoodClass("_fit_prompt"), time |-> TransientArrays.x,
     counts |-> TransientArrays.y, dt |-> TransientArrays.bin_size,
     function |-> FunctionName(model),
     integrated_rate_function |-> integrated_rate_function]

\* lines 103, 135: kwargs.get('likelihood', GaussianLikelihood(...)); lines
\* 162-164 for a prompt fit
BuildLikelihood(fn, transient, model, kwargs) ==
    IF fn = "_fit_prompt"
    THEN PoissonLikelihood(model, KwargsGet(kwargs, "integrated_rate_function", TRUE))
    ELSE IF "likelihood" \in kwargs.keys
         THEN [class |-> kwargs.likelihood]
         ELSE GaussianLikelihood(LikelihoodData(transient), model)

\* lines 94-108, 126-140, 158-169: label, data, likelihood, meta data (which
\* copies transient.__dict__)
FitLikelihood ==
    /\ fit.pc = "likelihood"
    /\ fit' = [fit EXCEPT !.pc = "sampler",
                          !.label = Label(fit.args.data_mode, fit.args.use_photon_index_prior),
                          !.likelihood = BuildLikelihood(fit.fn, fit.args.transient,
                                                         fit.model, fit.args.kwargs),
                          !.reads = @ \cup {"__dict__"}
                                      \cup (IF fit.fn = "_fit_prompt"
                                            THEN {"x", "y", "bin_size"}
                                            ELSE LikelihoodReads(fit.args.transient)),
                          !.trace = Append(@, "likelihood")]
    /\ UNCHANGED <<dirs, files, heap, cmp, ncalls, ej, mk, ag, rd, sw>>

\* the file bilby.run_sampler persists the result to: {outdir}/{label}_result.{save}
ResultFile(outdir, label, save) == outdir \o <<label \o "_result." \o save>>

\* the keywords bilby.run_sampler is given by name in lines 110-113
SamplerKeywords ==
    {"likelihood", "priors", "label", "sampler", "nlive", "outdir", "plot", "use_ratio",
     "walks", "resume", "maxmcmc", "result_class", "meta_data", "nthreads",
     "save_bounds", "nsteps", "nwalkers", "save"}

\* the keywords given twice in run_sampler(likelihood=likelihood, ..., **kwargs)
RepeatedKeywords(fn, kwargs) == SamplerKeywords \cap FitterKwargs(fn, kwargs).keys

\* lines 110-115: bilby.run_sampler, which returns and persists a result or
\* raises; a keyword given twice is a TypeError of the call itself
FitRunSampler ==
    /\ fit.pc = "sampler"
    /\ LET args == [priors |-> heap[fit.prior], label |-> fit.label,
                    outdir |-> fit.outdir, likelihood |-> fit.likelihood,
                    save |-> fit.args.save_format]
           f == [fit EXCEPT !.sampler_calls = @ + 1, !.sampler_args = args,
                            !.trace = Append(@, "sampler")]
       IN IF RepeatedKeywords(fit.fn, fit.args.kwargs) # {}
          THEN /\ files' = files
               /\ fit' = Raise(fit, "TypeError")
          ELSE \/ \E le \in LogEvidences, n \in PosteriorRows :
                     LET file == ResultFile(args.outdir, args.label, args.save)
                     IN /\ files' = WriteFile(files, file, ResultRecord(le, n))
                        /\ fit' = [f EXCEPT !.pc = "done", !.returned = "result",
                                            !.result = ResultRecord(le, n),
                                            !.written = file]
               \/ \E error \in SamplerErrors :
                     /\ files' = files
                     /\ fit' = Raise([f EXCEPT !.sampler_raised = error], error)
    /\ UNCHANGED <<dirs, heap, cmp, ncalls, ej, mk, ag, rd, sw>>

-----------------------------------------------------------------------------
(* read_result and calculate_BF: grb_bilby/analysis/Analysis.py *)

\* bilby.result.read_in_result: the persisted result, or an error naming the file
read_in_result(fs, filename) ==
    IF filename \in DOMAIN fs
    THEN [raised |-> "none", result |-> fs[filename]]
    ELSE [raised |-> "IOError", result |-> NoResult]

\* line 41: result_path = path + '/GRB' + GRB + '/' + model + '/'
ResultPath(path, GRB, model) == <<path, "GRB" \o GRB, model>>

\* ReadFileName without the branch on use_photon_index_prior: the plain result
\* file whatever the variant.
ReadFileName_IgnoresVariant(result_path, use_photon_index_prior) ==
    result_path \o <<"result_result.json">>

\* lines 44-47: the file read_result reads
ReadFileName(result_path, use_photon_index_prior) ==
    IF use_photon_index_prior = TRUE
    THEN result_path \o <<"photon_index_result.json">>
    ELSE result_path \o <<"result_result.json">>

\* lines 21-31: load_data.  tools.SGRB and its load_and_truncate_data read the
\* transient's data files; whether they can be read is the environment's
\* (readable), and what is raised when they cannot is called "DataError" here.
NoData == [name |-> "", path |-> ""]
load_data(GRB, path, readable) ==
    IF readable
    THEN [raised |-> "none", data |-> [name |-> GRB, path |-> path]]
    ELSE [raised |-> "DataError", data |-> NoData]

\* lines 33-50: read_result on the file system (ds, fs)
read_result(ds, fs, model, GRB, path, use_photon_index_prior, readable) ==
    LET result_path == ResultPath(path, GRB, model)
        ds1 == IF ~Exists(ds, fs, result_path) THEN ds \cup Prefixes(result_path) ELSE ds
        filename == ReadFileName(result_path, use_photon_index_prior)
        r == read_in_result(fs, filename)
        d == load_data(GRB, path, readable)
    IN IF r.raised # "none"
       THEN [dirs |-> ds1, raised |-> r.raised, filename |-> filename,
             result |-> NoResult, data |-> NoData]
       ELSE [dirs |-> ds1, raised |-> d.raised, filename |-> filename,
             result |-> IF d.raised = "none" THEN r.result ELSE NoResult,
             data |-> d.data]

\* LogBF with the evidences added.
LogBF_Sum(result1, result2) == result1.log_evidence + result2.log_evidence

\* LogBF with the operands exchanged.
LogBF_Swapped(result1, result2) == result2.log_evidence - result1.log_evidence

\* line 186
LogBF(result1, result2) == result1.log_evidence - result2.log_evidence

\* a call of read_result
ReadResult(model, GRB, path, use_photon_index_prior, readable) ==
    /\ fit.pc \in {"idle", "done"}
    /\ ncalls < MaxCalls
    /\ ncalls' = ncalls + 1
    /\ LET r == read_result(dirs, files, model, GRB, path, use_photon_index_prior,
                            readable)
           c == [IdleCmp EXCEPT !.op = "read_result", !.model1 = model, !.GRB = GRB,
                                !.path = path,
                                !.use_photon_index_prior = use_photon_index_prior,
                                !.read = <<r.filename>>]
       IN /\ dirs' = r.dirs
          /\ cmp' = IF r.raised # "none"
                    THEN [c EXCEPT !.raised = r.raised, !.returned = "raised",
                                   !.missing = IF r.raised = "IOError"
                                               THEN r.filename ELSE <<>>]
                    ELSE [c EXCEPT !.returned = "result", !.result = r.result]
    /\ fit' = IdleFit
    /\ UNCHANGED <<files, heap, ej, mk, ag, rd, sw>>

\* lines 183-188; readable1 and readable2 are the environment's answers to the
\* two load_data calls
CalculateBF(model1, model2, GRB, path, use_photon_index_prior, readable1, readable2) ==
    /\ fit.pc \in {"idle", "done"}
    /\ ncalls < MaxCalls
    /\ ncalls' = ncalls + 1
    /\ LET r1 == read_result(dirs, files, model1, GRB, path, use_photon_index_prior,
                             readable1)
           r2 == read_result(r1.dirs, files, model2, GRB, path, use_photon_index_prior,
                             readable2)
           c == [IdleCmp EXCEPT !.op = "calculate_BF", !.model1 = model1,
                                !.model2 = model2, !.GRB = GRB, !.path = path,
                                !.use_photon_index_prior = use_photon_index_prior]
       IN IF r1.raised # "none"
          THEN /\ dirs' = r1.dirs
               /\ cmp' = [c EXCEPT !.raised = r1.raised, !.returned = "raised",
                                   !.missing = IF r1.raised = "IOError"
                                               THEN r1.filename ELSE <<>>,
                                   !.read = <<r1.filename>>]
          ELSE /\ dirs' = r2.dirs
               /\ cmp' = IF r2.raised # "none"
                         THEN [c EXCEPT !.raised = r2.raised, !.returned = "raised",
                                        !.missing = IF r2.raised = "IOError"
                                                    THEN r2.filename ELSE <<>>,
                                        !.read = <<r1.filename, r2.filename>>]
                         ELSE [c EXCEPT !.returned = "value",
                                        !.logBF = LogBF(r1.result, r2.result),
                                        !.read = <<r1.filename, r2.filename>>]
    /\ fit' = IdleFit
    /\ UNCHANGED <<files, heap, ej, mk, ag, rd, sw>>

-----------------------------------------------------------------------------
(* Real arithmetic: numbers are fixed-point integers, ONE standing for 1.0,  *)
(* every operation rounded to the nearest unit.  np.log, ** and np.sqrt are   *)
(* computed by range reduction and series to that precision.  Bases of Pow    *)
(* and arguments of Ln are positive or zero on the inputs drawn.              *)

ONE == 1000 * 1000

Abs(a) == IF a < 0 THEN -a ELSE a

\* the sign of a fixed-point number
Sign(a) == IF a > 0 THEN 1 ELSE IF a < 0 THEN -1 ELSE 0

\* np.maximum without the floor: the first argument as it is.
Maximum_First(a, b) == a

\* np.maximum
Maximum(a, b) == IF a >= b THEN a ELSE b

MulU(a, b) ==
    LET ah == a \div 1000
        al == a % 1000
        bh == b \div 1000
        bl == b % 1000
        mid == ah * bl + al * bh
    IN ah * bh + mid \div 1000 + ((mid % 1000) * 1000 + al * bl + ONE \div 2) \div ONE

\* a * b
Mul(a, b) == Sign(a) * Sign(b) * MulU(Abs(a), Abs(b))

\* a ** 2
Sq(a) == Mul(a, a)

RECURSIVE FracDigits(_, _, _)
FracDigits(r, b, k) ==
    IF k = 0
    THEN 0
    ELSE IF b > 200000000
         THEN LET b10 == (b + 5) \div 10
              IN (r \div b10) * (10 ^ (k - 1)) + FracDigits((r % b10) * 10, b, k - 1)
         ELSE LET r10 == r * 10
              IN (r10 \div b) * (10 ^ (k - 1)) + FracDigits(r10 % b, b, k - 1)

DivU(a, b) == (a \div b) * ONE + (FracDigits(a % b, b, 7) + 5) \div 10

\* a / b
Div(a, b) == Sign(a) * Sign(b) * DivU(Abs(a), Abs(b))

RECURSIVE AtanhSeries(_, _, _, _)
AtanhSeries(term, y2, j, n) ==
    IF j > n
    THEN 0
    ELSE (term + j) \div (2 * j + 1) + AtanhSeries(Mul(term, y2), y2, j + 1, n)

Atanh(y) == AtanhSeries(y, Mul(y, y), 0, 9)

LN2 == 2 * Atanh(ONE \div 3)

\* ln(p / q) for p, q > 0
RECURSIVE LnRatio(_, _)
LnRatio(p, q) ==
    IF 2 * p >= 3 * q THEN LN2 + LnRatio(p, 2 * q)
    ELSE IF 4 * p < 3 * q THEN LnRatio(2 * p, q) - LN2
    ELSE 2 * Atanh(Div(p - q, p + q))

\* np.log of a fixed-point number, and of an integer
Ln(v) == LnRatio(v, ONE)
LnInt(n) == LnRatio(n, 1)

RECURSIVE ExpSeries(_, _, _, _)
ExpSeries(term, r, j, n) ==
    IF j > n
    THEN 0
    ELSE term + ExpSeries((Mul(term, r) + (j + 1) \div 2) \div (j + 1), r, j + 1, n)

RECURSIVE Scale2(_, _)
Scale2(v, k) ==
    IF k = 0 THEN v
    ELSE IF k > 0 THEN Scale2(2 * v, k - 1)
    ELSE Scale2((v + 1) \div 2, k + 1)

Exp(v) ==
    LET k == v \div LN2
        r == v - k * LN2
    IN Scale2(ExpSeries(ONE, r, 0, 12), k)

\* exp(e * ln(base)) for base >= 0
ExpLn(base, e) == IF base = 0 THEN 0 ELSE Exp(Mul(e, Ln(base)))

\* Newton steps x <- (x + v / x) / 2 on an estimate x of the square root of v
RECURSIVE NewtonSqrt(_, _, _)
NewtonSqrt(v, x, n) ==
    IF n = 0 \/ x = 0 THEN x
    ELSE NewtonSqrt(v, (x + Div(v, x) + 1) \div 2, n - 1)

\* np.sqrt, and ** 0.5: the series estimate brought to the nearest unit, so a
\* perfect square has its exact root as it has in floating point
Sqrt(v) == NewtonSqrt(v, ExpLn(v, ONE \div 2), 2)

\* base ** e for base >= 0
Pow(base, e) == IF e = ONE \div 2 THEN Sqrt(base) ELSE ExpLn(base, e)

-----------------------------------------------------------------------------
(* Ejecta relations: redback/ejecta_relations.py *)

\* calc_compactness_from_lambda without the quadratic term
calc_compactness_from_lambda_Linear(lambda_1) ==
    371000 - Mul(39100, LnInt(lambda_1))

\* lines 238-244 (lambda_1 is an integer here)
calc_compactness_from_lambda(lambda_1) ==
    LET ln == LnInt(lambda_1)
    IN 371000 - Mul(39100, ln) + Mul(1056, Sq(ln))

\* lines 271-278
calc_baryonic_mass(mass, compactness) ==
    Mul(mass, ONE + Mul(885785, Pow(compactness, 1208238)))

\* lines 281-297
calc_vrho(mass_1, mass_2, lambda_1, lambda_2) ==
    LET a == -219479
        b == 444836
        c == -2673850
        compactness_1 == calc_compactness_from_lambda(lambda_1)
        compactness_2 == calc_compactness_from_lambda(lambda_2)
    IN Mul(Mul(Div(mass_1, mass_2), ONE + Mul(c, compactness_1))
           + Mul(Div(mass_2, mass_1), ONE + Mul(c, compactness_2)), a) + b

\* lines 300-316
calc_vz(mass_1, mass_2, lambda_1, lambda_2) ==
    LET a == -315585
        b == 638080
        c == -1007570
        compactness_1 == calc_compactness_from_lambda(lambda_1)
        compactness_2 == calc_compactness_from_lambda(lambda_2)
    IN Mul(Mul(Div(mass_1, mass_2), ONE + Mul(c, compactness_1))
           + Mul(Div(mass_2, mass_1), ONE + Mul(c, compactness_2)), a) + b

\* lines 30-44: OneComponentBNSNoProjection.calculate_ejecta_velocity
NoProjection_ejecta_velocity(self) ==
    LET a == -309000
        b == 657000
        c == -1879000
    IN Mul(Mul(a, Div(self.mass_1, self.mass_2)), ONE + Mul(c, self.c1))
       + Mul(Mul(a, Div(self.mass_2, self.mass_1)), ONE + Mul(c, self.c2)) + b

\* lines 46-65: OneComponentBNSNoProjection.calculate_ejecta_mass
NoProjection_ejecta_mass(self) ==
    LET c1 == self.c1
        c2 == self.c2
        a == -71900
        b == 211600
        d == -2420000
        n == -2905000
        log10_mej ==
            Mul(a, Div(Mul(self.mass_1, ONE - 2 * c1), c1)
                   + Div(Mul(self.mass_2, ONE - 2 * c2), c2))
            + Mul(b, Mul(self.mass_1, Pow(Div(self.mass_2, self.mass_1), n))
                     + Mul(self.mass_2, Pow(Div(self.mass_1, self.mass_2), n)))
            + d
    IN Pow(10 * ONE, log10_mej)

\* lines 67-77 and 149-159: calculate_qej
calculate_qej(self) ==
    LET tmp1 == 3 * self.vz + Sqrt(9 * Sq(self.vz) + 4 * Sq(self.vrho))
    IN Div(Mul(Pow(2 * ONE, Div(4 * ONE, 3 * ONE)), Sq(self.vrho))
           + Pow(Mul(2 * Sq(self.vrho), tmp1), Div(2 * ONE, 3 * ONE)),
           Pow(Mul(Pow(self.vrho, 5 * ONE), tmp1), Div(ONE, 3 * ONE)))

\* lines 79-86 and 161-168: calculate_phej
calculate_phej(self) ==
    LET pi == 3141593
    IN Div(Mul(4 * self.qej, pi), 2 * ONE)

\* lines 113-121: OneComponentBNSProjection.calculate_ejecta_velocity
Projection_ejecta_velocity(self) ==
    Pow(Sq(self.vrho) + Sq(self.vz), ONE \div 2)

\* lines 130-146: the fit of OneComponentBNSProjection.calculate_ejecta_mass,
\* before the floor: tmp1 + tmp2 + tmp3 + d
Projection_fit(self) ==
    LET a == -1356950
        b == 6112520
        c == -49433550
        d == 16114400
        n == -2548400
        c1 == self.c1
        c2 == self.c2
        mb1 == calc_baryonic_mass(self.mass_1, c1)
        mb2 == calc_baryonic_mass(self.mass_2, c2)
        third == Div(ONE, 3 * ONE)
        tmp1 == Mul(Div(Mul(Mul(mb1, Pow(Div(self.mass_2, self.mass_1), third)),
                            ONE - 2 * c1), c1)
                    + Div(Mul(Mul(mb2, Pow(Div(self.mass_1, self.mass_2), third)),
                              ONE - 2 * c2), c2), a)
        tmp2 == Mul(Mul(mb1, Pow(Div(self.mass_2, self.mass_1), n))
                    + Mul(mb2, Pow(Div(self.mass_1, self.mass_2), n)), b)
        tmp3 == Mul(Mul(mb1, ONE - Div(self.mass_1, mb1))
                    + Mul(mb2, ONE - Div(self.mass_2, mb2)), c)
    IN tmp1 + tmp2 + tmp3 + d

\* lines 123-147: mej = np.maximum(tmp1 + tmp2 + tmp3 + d, 0) / 1000.0
Projection_ejecta_mass(self) ==
    Div(Maximum(Projection_fit(self), 0), 1000 * ONE)

\* lines 191-202: OneComponentNSBH.isco_radius
\* line 199
isco_z1(chi) ==
    LET third == Div(ONE, 3 * ONE)
    IN ONE + Mul(Pow(ONE - Mul(chi, chi), third),
                 Pow(ONE + chi, third) + Pow(ONE - chi, third))

\* line 200
isco_z2(chi) == Pow(3 * Mul(chi, chi) + Mul(isco_z1(chi), isco_z1(chi)), ONE \div 2)

\* line 201: ((3 - z1) * (3 + z1 + 2 * z2)) ** (1 / 2.0), the term np.sign(chi) multiplies
isco_spin_term(chi) ==
    Pow(Mul(3 * ONE - isco_z1(chi), 3 * ONE + isco_z1(chi) + 2 * isco_z2(chi)), ONE \div 2)

\* np.sign that forgets the direction: 1 for every non-zero argument
np_sign_Unsigned(chi) == IF chi = 0 THEN 0 ELSE 1

\* line 201: np.sign(chi)
np_sign(chi) == IF chi > 0 THEN 1 ELSE IF chi < 0 THEN -1 ELSE 0

isco_radius(self) ==
    LET chi == self.chi_eff
    IN 3 * ONE + isco_z2(chi) - np_sign(chi) * isco_spin_term(chi)

\* lines 204-212: OneComponentNSBH.calculate_ejecta_velocity
NSBH_ejecta_velocity(self) == Mul(15333, self.mass_ratio) + 190667

\* lines 221-233: the fit of OneComponentNSBH.calculate_ejecta_mass, before the
\* floor: tmp1 + tmp2 + tmp3
NSBH_fit(self) ==
    LET a1 == -2269
        a2 == 44640
        a3 == 2431000
        a4 == -415900
        n1 == 1352000
        n2 == 249700
        compactness == calc_compactness_from_lambda(self.lambda_ns)
        baryonic_mass == calc_baryonic_mass(self.mass_ns, compactness)
        tmp1 == Mul(Mul(self.risco, Pow(self.mass_ratio, n1)), a1)
        tmp2 == Div(Mul(Mul(Pow(self.mass_ratio, n2), ONE - 2 * compactness), a2),
                    compactness)
        tmp3 == Mul(ONE - Div(self.mass_ns, baryonic_mass), a3) + a4
    IN tmp1 + tmp2 + tmp3

\* lines 214-235: mej = baryonic_mass * np.maximum(tmp1 + tmp2 + tmp3, 0)
NSBH_ejecta_mass(self) ==
    LET compactness == calc_compactness_from_lambda(self.lambda_ns)
        baryonic_mass == calc_baryonic_mass(self.mass_ns, compactness)
    IN Mul(baryonic_mass, Maximum(NSBH_fit(self), 0))

\* The classes and their valid inputs: masses and spin as fixed-point numbers,
\* tidal deformabilities as integers.
BNSClasses == {"OneComponentBNSNoProjection", "OneComponentBNSProjection"}
Masses == {1200000, 1400000, 2000000}
Lambdas == {300, 1000, 5000}
BHMasses == {5000000, 9800000}
Spins == {-500000, 0, 500000}

BNSArgs == [mass_1 : Masses, mass_2 : Masses, lambda_1 : Lambdas, lambda_2 : Lambdas]
NSBHArgs == [mass_bh : BHMasses, mass_ns : Masses, chi_eff : Spins, lambda_ns : Lambdas]

\* lines 16-24, 99-107 and 181-186: the attributes __init__ sets from its
\* arguments, before its first use of a calculate_* member
InitialAttributes(cls, args) ==
    IF cls \in BNSClasses
    THEN [mass_1 |-> args.mass_1, mass_2 |-> args.mass_2,
          lambda_1 |-> args.lambda_1, lambda_2 |-> args.lambda_2,
          c1 |-> calc_compactness_from_lambda(args.lambda_1),
          c2 |-> calc_compactness_from_lambda(args.lambda_2),
          vrho |-> calc_vrho(args.mass_1, args.mass_2, args.lambda_1, args.lambda_2),
          vz |-> calc_vz(args.mass_1, args.mass_2, args.lambda_1, args.lambda_2)]
    ELSE [mass_bh |-> args.mass_bh, mass_ns |-> args.mass_ns,
          mass_ratio |-> Div(args.mass_bh, args.mass_ns),
          chi_eff |-> args.chi_eff, lambda_ns |-> args.lambda_ns]

\* lines 25-28, 108-111 and 187-189: self.<attr> = self.<member>(), in order
Assignment(attr, member) == [attr |-> attr, member |-> member]

InitAssignments(cls) ==
    IF cls \in BNSClasses
    THEN <<Assignment("ejecta_mass", "calculate_ejecta_mass"),
           Assignment("ejecta_velocity", "calculate_ejecta_velocity"),
           Assignment("qej", "calculate_qej"),
           Assignment("phej", "calculate_phej")>>
    ELSE <<Assignment("risco", "isco_radius"),
           Assignment("ejecta_velocity", "calculate_ejecta_velocity"),
           Assignment("ejecta_mass", "calculate_ejecta_mass")>>

\* the members declared under @property (lines 30, 46, 67, 79, 113, 123, 149,
\* 161, 191, 204, 214)
IsProperty(cls, member) ==
    IF cls \in BNSClasses
    THEN member \in {"calculate_ejecta_velocity", "calculate_ejecta_mass",
                     "calculate_qej", "calculate_phej"}
    ELSE member \in {"isco_radius", "calculate_ejecta_velocity", "calculate_ejecta_mass"}

\* the body of a member, evaluated on self
Member(cls, member, self) ==
    CASE member = "calculate_qej" -> calculate_qej(self)
      [] member = "calculate_phej" -> calculate_phej(self)
      [] member = "isco_radius" -> isco_radius(self)
      [] member = "calculate_ejecta_velocity" ->
            CASE cls = "OneComponentBNSNoProjection" -> NoProjection_ejecta_velocity(self)
              [] cls = "OneComponentBNSProjection" -> Projection_ejecta_velocity(self)
              [] OTHER -> NSBH_ejecta_velocity(self)
      [] member = "calculate_ejecta_mass" ->
            CASE cls = "OneComponentBNSNoProjection" -> NoProjection_ejecta_mass(self)
              [] cls = "OneComponentBNSProjection" -> Projection_ejecta_mass(self)
              [] OTHER -> NSBH_ejecta_mass(self)

SetAttr(self, attr, value) == (attr :> value) @@ self

\* the fits applied as pure functions, each to the attributes computed before
\* it, in the order of __init__
RECURSIVE ApplyMembers(_, _, _)
ApplyMembers(cls, self, k) ==
    IF k > Len(InitAssignments(cls))
    THEN self
    ELSE LET asg == InitAssignments(cls)[k]
         IN ApplyMembers(cls, SetAttr(self, asg.attr, Member(cls, asg.member, self)),
                         k + 1)

IdleEj ==
    [pc |-> "idle", cls |-> "", self |-> <<>>, next |-> 0, raised |-> "none",
     value |-> 0]

\* OneComponentBNSNoProjection(...), OneComponentBNSProjection(...),
\* OneComponentNSBH(...): __init__ up to its first calculate_* statement
Construct(cls, args) ==
    /\ ej.pc = "idle"
    /\ ej' = [IdleEj EXCEPT !.pc = "init", !.cls = cls,
                            !.self = InitialAttributes(cls, args), !.next = 1]
    /\ UNCHANGED <<dirs, files, heap, fit, cmp, ncalls, mk, ag, rd, sw>>

\* one statement self.<attr> = self.<member>() of __init__: reading a property
\* runs its getter and yields the number, and calling a number raises TypeError;
\* a plain method is called and its result stored
InitStep ==
    /\ ej.pc = "init"
    /\ LET asg == InitAssignments(ej.cls)[ej.next]
           v == Member(ej.cls, asg.member, ej.self)
       IN ej' = IF IsProperty(ej.cls, asg.member)
                THEN [ej EXCEPT !.pc = "raised", !.raised = "TypeError", !.value = v]
                ELSE [ej EXCEPT !.self = SetAttr(@, asg.attr, v),
                                !.next = @ + 1,
                                !.pc = IF ej.next = Len(InitAssignments(ej.cls))
                                       THEN "constructed" ELSE "init"]
    /\ UNCHANGED <<dirs, files, heap, fit, cmp, ncalls, mk, ag, rd, sw>>

\* the fits of a class evaluated on valid inputs
Evaluate(cls, args) ==
    /\ ej.pc = "idle"
    /\ ej' = [IdleEj EXCEPT !.pc = "evaluated", !.cls = cls,
                            !.self = ApplyMembers(cls, InitialAttributes(cls, args), 1)]
    /\ UNCHANGED <<dirs, files, heap, fit, cmp, ncalls, mk, ag, rd, sw>>

\* the caller drops the object or the error
Discard ==
    /\ ej.pc \in {"raised", "constructed", "evaluated"}
    /\ ej' = IdleEj
    /\ UNCHANGED <<dirs, files, heap, fit, cmp, ncalls, mk, ag, rd, sw>>

-----------------------------------------------------------------------------------------------------------------------------------------------------
(* Concurrent fits: Path(outdir).mkdir(parents=True, exist_ok=True) of       *)
(* sampler.py lines 92, 124 and 156, run by two processes on one file        *)
(* system.  pathlib's mkdir tries os.mkdir; on FileNotFoundError with        *)
(* parents it makes the parent (parents=True, exist_ok=True) and retries     *)
(* with parents=False; on any other OSError it returns when exist_ok and the *)
(* path is a directory, and raises otherwise.  Each os.mkdir is one atomic   *)
(* step.                                                                     *)

Procs == {1, 2}
MkNames == {"140903A", "170817A"}

\* the output directories of the fits the processes run
MkTargets ==
    {OutputDirectory(fn, <<".">>, name, ModelFn(model)) :
        fn \in {"_fit_grb", "_fit_kilonova"}, name \in MkNames, model \in RegisteredNames}

\* a pending mkdir call
Frame(path, parents, exist_ok) == [path |-> path, parents |-> parents, exist_ok |-> exist_ok]

IdleProc ==
    [pc |-> "idle", target |-> <<>>, stack |-> <<>>, raised |-> "none", events |-> <<>>,
     dirs0 |-> {}]
IdleMk == [p \in Procs |-> IdleProc]

Parent(path) == IF Len(path) > 1 THEN SubSeq(path, 1, Len(path) - 1) ELSE path

\* os.mkdir(path) on the directories ds
OsMkdir(ds, path) ==
    IF path \in ds THEN "FileExistsError"
    ELSE IF Parent(path) \notin ds THEN "FileNotFoundError"
    ELSE "ok"

\* OnFileExists without exist_ok: an existing directory is an error
OnFileExists_Strict(exist_ok, is_dir) == "raise"

\* except OSError: if not exist_ok or not self.is_dir(): raise
OnFileExists(exist_ok, is_dir) == IF ~exist_ok \/ ~is_dir THEN "raise" ELSE "return"

\* except FileNotFoundError: if not parents or self.parent == self: raise
OnFileNotFound(parents, path) ==
    IF ~parents \/ Parent(path) = path THEN "raise" ELSE "recurse"

\* a process reaches the directory step of its fit
MkStart(p, target) ==
    /\ mk[p].pc = "idle"
    /\ mk' = [mk EXCEPT ![p] = [IdleProc EXCEPT !.pc = "running", !.target = target,
                                                !.stack = <<Frame(target, TRUE, TRUE)>>,
                                                !.dirs0 = dirs]]
    /\ UNCHANGED <<dirs, files, heap, fit, cmp, ncalls, ej, ag, rd, sw>>

\* the process returns from its innermost mkdir call
Return(proc) ==
    LET rest == SubSeq(proc.stack, 1, Len(proc.stack) - 1)
    IN [proc EXCEPT !.stack = rest, !.pc = IF rest = <<>> THEN "done" ELSE "running"]

\* one os.mkdir of a process and what pathlib does with its outcome
MkStep(p) ==
    /\ mk[p].pc = "running"
    /\ LET proc == mk[p]
           top == proc.stack[Len(proc.stack)]
           outcome == OsMkdir(dirs, top.path)
           seen == [proc EXCEPT !.events = Append(@, outcome)]
       IN CASE outcome = "ok" ->
                 /\ dirs' = dirs \cup {top.path}
                 /\ mk' = [mk EXCEPT ![p] = Return(seen)]
            [] outcome = "FileExistsError" ->
                 /\ dirs' = dirs
                 /\ mk' = [mk EXCEPT ![p] =
                              IF OnFileExists(top.exist_ok, top.path \in dirs) = "return"
                              THEN Return(seen)
                              ELSE [seen EXCEPT !.pc = "done", !.raised = outcome]]
            [] OTHER ->
                 /\ dirs' = dirs
                 /\ mk' = [mk EXCEPT ![p] =
                              IF OnFileNotFound(top.parents, top.path) = "recurse"
                              THEN [seen EXCEPT !.stack =
                                       SubSeq(@, 1, Len(@) - 1)
                                       \o <<Frame(top.path, FALSE, top.exist_ok),
                                            Frame(Parent(top.path), TRUE, TRUE)>>]
                              ELSE [seen EXCEPT !.pc = "done", !.raised = outcome]]
    /\ UNCHANGED <<files, heap, fit, cmp, ncalls, ej, ag, rd, sw>>

NextMkdir ==
    \/ \E p \in Procs, target \in MkTargets : MkStart(p, target)
    \/ \E p \in Procs : MkStep(p)

-----------------------------------------------------------------------------
(* The jet-afterglow models: redback/transient_models/afterglow_models.py.   *)
(* A worker calls model(time, **parameters, **kwargs); the function reads    *)
(* its keyword dictionary and the module-level jettype_dict, builds the      *)
(* record Z and calls afterglow.fluxDensity(time, frequency, **Z).  The      *)
(* solver is external: what is modelled is what it is handed.                *)

MaxModelCalls == 3

Workers == {1, 2}

\* lines 14-18: the module-level dictionaries
ModuleState ==
    [jettype_dict |-> [tophat |-> "TopHat", gaussian |-> "Gaussian",
                       powerlaw_w_core |-> "PowerLawCore",
                       gaussian_w_core |-> "GaussianCore", cocoon |-> "Spherical",
                       smooth_power_law |-> "PowerLaw", cone |-> "Cone"],
     spectype_dict |-> [no_inverse_compton |-> 0, inverse_compton |-> 1]]

\* the key of jettype_dict each function looks up (lines 28, 47, 66, 86, 107,
\* 127, 147, 167, 187)
JetKey ==
    [cocoon |-> "cocoon", kn_afterglow |-> "cocoon", cone_afterglow |-> "cone",
     gaussiancore |-> "gaussian_w_core", gaussian |-> "gaussian",
     smoothpowerlaw |-> "smooth_power_law", powerlawcore |-> "powerlaw_w_core",
     tophat |-> "tophat", tophat_integrated |-> "tophat"]

AfterglowModels == DOMAIN JetKey
SphericalModels == {"cocoon", "kn_afterglow"}
WingModels == {"cone_afterglow", "gaussiancore", "gaussian", "smoothpowerlaw", "powerlawcore"}
BetaModels == {"smoothpowerlaw", "powerlawcore"}

\* the caller's configuration dictionaries (model_kwargs), by reference: one
\* with a single frequency, one with the frequency band tophat_integrated takes
\* and, for each key the functions read, one that lacks it ("no_" + key)
ConfigKeys == <<"spread", "latres", "tres", "spectype", "frequency">>
Without(config, key) == [k \in DOMAIN config \ {key} |-> config[k]]
FullConfigs ==
    [K1 |-> [spread |-> FALSE, latres |-> 2, tres |-> 100, spectype |-> 0,
             frequency |-> <<5>>],
     K2 |-> [spread |-> FALSE, latres |-> 2, tres |-> 100, spectype |-> 0,
             frequency |-> <<2, 6>>]]
CallerConfigs ==
    [c \in {"no_" \o ConfigKeys[i] : i \in DOMAIN ConfigKeys} |->
        LET key == CHOOSE k \in {ConfigKeys[i] : i \in DOMAIN ConfigKeys} : c = "no_" \o k
        IN Without(FullConfigs.K1, key)]
    @@ [no_spread_frequency |-> Without(Without(FullConfigs.K1, "spread"), "frequency")]
    @@ FullConfigs

\* the parameters of a call (exponents are small naturals here)
ModelParams(thv, loge0, thc) ==
    [redshift |-> 1, thv |-> thv, loge0 |-> loge0, thc |-> thc, thw |-> 3, beta |-> 2,
     logn0 |-> 4, p |-> 2, logepse |-> 1, logepsb |-> 0, ksin |-> 1, g0 |-> 100,
     umax |-> 6, umin |-> 1, logEi |-> loge0, k |-> 5, mej |-> 1]

Times == {<<1, 10>>}

\* the calls the workers make
ModelCalls ==
    {[model |-> m, time |-> t, params |-> ModelParams(0, 2, 1), config |-> "K1"] :
        m \in AfterglowModels \ {"tophat_integrated"}, t \in Times}
    \cup {[model |-> m, time |-> t, params |-> ModelParams(1, 3, 2), config |-> "K1"] :
            m \in {"tophat", "cone_afterglow"}, t \in Times}
    \cup {[model |-> "tophat_integrated", time |-> t, params |-> ModelParams(0, 2, 1),
           config |-> "K2"] : t \in Times}
    \cup {[model |-> "tophat", time |-> t, params |-> ModelParams(0, 2, 1),
           config |-> "no_" \o ConfigKeys[i]] : t \in Times, i \in DOMAIN ConfigKeys}
    \cup {[model |-> m, time |-> t, params |-> ModelParams(0, 2, 1),
           config |-> c] : m \in {"tophat_integrated", "cocoon"}, t \in Times,
                           c \in {"no_frequency", "no_spread_frequency"}}

\* 10 ** x taken as 10 * x
Pow10_Linear(x) == 10 * x

\* 10 ** x
RECURSIVE Pow10(_)
Pow10(x) == IF x = 0 THEN 1 ELSE 10 * Pow10(x - 1)

\* cosmo.luminosity_distance(redshift).cgs.value: a function of the redshift
LuminosityDistance(redshift) == [luminosity_distance |-> redshift]

\* the record Z of a function (lines 35-38, 54-57, 74-77, 95-98, 115-118,
\* 135-138, 155-158, 175-178, 196-199)
SolverConfig(model, P, kwargs, jettype_dict) ==
    LET common ==
            [jetType |-> jettype_dict[JetKey[model]], specType |-> kwargs.spectype,
             n0 |-> Pow10(P.logn0), p |-> P.p, epsilon_e |-> Pow10(P.logepse),
             epsilon_B |-> Pow10(P.logepsb), xi_N |-> P.ksin,
             d_L |-> LuminosityDistance(P.redshift), z |-> P.redshift,
             L0 |-> 0, q |-> 0, ts |-> 0, g0 |-> P.g0,
             spread |-> kwargs.spread, latRes |-> kwargs.latres, tRes |-> kwargs.tres]
        jet == [thetaObs |-> P.thv, E0 |-> Pow10(P.loge0), thetaCore |-> P.thc]
    IN IF model \in SphericalModels
       THEN common @@ [uMax |-> P.umax, Er |-> Pow10(P.logEi), uMin |-> P.umin,
                       k |-> P.k, MFast_solar |-> P.mej]
       ELSE IF model \in BetaModels
       THEN common @@ jet @@ [thetaWing |-> P.thw * P.thc, b |-> P.beta]
       ELSE IF model \in WingModels
       THEN common @@ jet @@ [thetaWing |-> P.thw * P.thc]
       ELSE common @@ jet

\* np.linspace(a, b, 3) (lines 201)
Linspace3(a, b) == <<a, (a + b) \div 2, b>>

\* t and nu of np.meshgrid(time, nu_1d), flattened (lines 202-204)
RECURSIVE Tile(_, _)
Tile(time, n) == IF n = 0 THEN <<>> ELSE time \o Tile(time, n - 1)
RECURSIVE Repeat(_, _)
Repeat(nu_1d, n) ==
    IF nu_1d = <<>> THEN <<>>
    ELSE [i \in 1..n |-> Head(nu_1d)] \o Repeat(Tail(nu_1d), n)

\* the times and frequencies afterglow.fluxDensity is called with (lines 39,
\* 58, 78, 99, 119, 139, 159, 179, 205)
SolverTimes(model, time) ==
    IF model = "tophat_integrated" THEN Tile(time, 3) ELSE time
SolverFrequency(model, time, kwargs) ==
    IF model = "tophat_integrated"
    THEN Repeat(Linspace3(kwargs.frequency[1], kwargs.frequency[2]), Len(time))
    ELSE kwargs.frequency

\* the first key, in the order lines 164-169 (25-30, ...) read them, that the
\* function's kwargs lacks: kwargs[key] raises KeyError there
RECURSIVE FirstMissing(_, _)
FirstMissing(keys, kwargs) ==
    IF keys = <<>> THEN ""
    ELSE IF Head(keys) \notin DOMAIN kwargs THEN Head(keys)
    ELSE FirstMissing(Tail(keys), kwargs)

\* MissingKey with the keys read in the opposite order
MissingKey_Last(kwargs) ==
    FirstMissing(<<"frequency", "spectype", "tres", "latres", "spread">>, kwargs)

MissingKey(kwargs) == FirstMissing(ConfigKeys, kwargs)

\* afterglow.fluxDensity(t, nu, **Z) is the external solver: its output has one
\* value per (t, nu) pair, here a value that tells the pairs apart
FluxDensityAt(t, nu) == 3 * (100 * t + nu * nu)
FluxDensity(times, frequency) ==
    [k \in DOMAIN times |->
        FluxDensityAt(times[k], IF Len(frequency) = 1 THEN frequency[1] ELSE frequency[k])]

\* reshape read column by column
Reshape_ColumnMajor(flat, rows, cols) ==
    [i \in 1..rows |-> [j \in 1..cols |-> flat[(j - 1) * rows + i]]]

\* line 206: fluxdensity.reshape(len(nu_1d), len(time))
Reshape(flat, rows, cols) ==
    [i \in 1..rows |-> [j \in 1..cols |-> flat[(i - 1) * cols + j]]]

\* line 207: prefactor = 1e-26, kept as the power of ten the values are in
prefactor_exp10 == -26

\* line 209: simps(lightcurve_at_nu, axis=0, x=nu_1d) on 3 equally spaced
\* frequencies: (h / 3) * (f0 + 4 * f1 + f2) with h the spacing, column by column
Simps(lightcurve_at_nu, nu_1d, cols) ==
    [j \in 1..cols |->
        ((nu_1d[3] - nu_1d[1])
           * (lightcurve_at_nu[1][j] + 4 * lightcurve_at_nu[2][j] + lightcurve_at_nu[3][j]))
        \div 6]

\* what a function returns: the solver's output (lines 39-40, ..., 179-180),
\* and for tophat_integrated lines 201-210
ModelReturn(model, time, kwargs) ==
    LET out == FluxDensity(SolverTimes(model, time), SolverFrequency(model, time, kwargs))
    IN IF model = "tophat_integrated"
       THEN LET nu_1d == Linspace3(kwargs.frequency[1], kwargs.frequency[2])
                lightcurve_at_nu == Reshape(out, Len(nu_1d), Len(time))
            IN [fluxdensity |-> out, lightcurve_at_nu |-> lightcurve_at_nu,
                exp10 |-> prefactor_exp10,
                value |-> Simps(lightcurve_at_nu, nu_1d, Len(time))]
       ELSE [fluxdensity |-> out, lightcurve_at_nu |-> <<>>, exp10 |-> 0, value |-> out]

\* ModuleAfterCall for a function that rebinds the entry it looked up
ModuleAfterCall_Consumed(module, model) ==
    [module EXCEPT !.jettype_dict[JetKey[model]] = "Used"]

\* the module-level dictionaries after a call: the functions assign to locals only
ModuleAfterCall(module, model) == module

IdleWorker ==
    [pc |-> "idle", model |-> "", time |-> <<>>, params |-> ModelParams(0, 0, 0),
     kwargs |-> CallerConfigs.K1, config |-> ""]

\* the caller's configurations, the module-level state, the workers, the
\* invocations of the solver in the order they were made, the calls started
\* and the calls that raised
IdleAg ==
    [configs |-> CallerConfigs, module |-> ModuleState,
     workers |-> [w \in Workers |-> IdleWorker], log |-> <<>>, n |-> 0,
     errors |-> {}]

\* model(time, **parameters, **kwargs): the function's kwargs is a dictionary
\* of its own, filled from the caller's
ModelCall(w, call) ==
    /\ ag.workers[w].pc = "idle"
    /\ ag.n < MaxModelCalls
    /\ ag' = [ag EXCEPT !.n = @ + 1,
                        !.workers[w] = [pc |-> "called", model |-> call.model,
                                        time |-> call.time, params |-> call.params,
                                        kwargs |-> ag.configs[call.config],
                                        config |-> call.config]]
    /\ UNCHANGED <<dirs, files, heap, fit, cmp, ncalls, ej, mk, rd, sw>>

\* the body of the function: the reads of kwargs, of which the first that
\* fails ends the call with KeyError, then afterglow.fluxDensity(...) and the
\* return
ModelSolve(w) ==
    /\ ag.workers[w].pc = "called"
    /\ LET me == ag.workers[w]
           handed == [time |-> SolverTimes(me.model, me.time),
                      frequency |-> SolverFrequency(me.model, me.time, me.kwargs),
                      Z |-> SolverConfig(me.model, me.params, me.kwargs,
                                         ag.module.jettype_dict)]
       IN IF MissingKey(me.kwargs) # ""
          THEN ag' = [ag EXCEPT !.workers[w] = IdleWorker,
                                !.errors = @ \cup {[model |-> me.model, config |-> me.config,
                                                    raised |-> "KeyError",
                                                    key |-> MissingKey(me.kwargs)]}]
          ELSE ag' = [ag EXCEPT !.workers[w] = IdleWorker,
                                !.module = ModuleAfterCall(@, me.model),
                                !.log = Append(@, [worker |-> w, model |-> me.model,
                                                   time |-> me.time, params |-> me.params,
                                                   config |-> me.config, handed |-> handed,
                                                   returned |-> ModelReturn(me.model, me.time,
                                                                            me.kwargs)])]
    /\ UNCHANGED <<dirs, files, heap, fit, cmp, ncalls, ej, mk, rd, sw>>

NextModels ==
    \/ \E w \in Workers, call \in ModelCalls : ModelCall(w, call)
    \/ \E w \in Workers : ModelSolve(w)

-----------------------------------------------------------------------------
(* Concurrent read_result calls: grb_bilby/analysis/Analysis.py 41-48.  Each *)
(* process runs the existence check of line 42, then os.makedirs (line 43)   *)
(* system call by system call, then the read.                                *)

\* the result paths the processes read
RdTargets == {[model |-> model, GRB |-> GRB, path |-> path] :
                model \in RegisteredNames, GRB \in GRBs, path \in Outdirs}

\* a pending os.makedirs call: the path and whether its head was dealt with
MakedirsFrame(path, stage) == [path |-> path, stage |-> stage]

IdleReader ==
    [pc |-> "idle", target |-> [model |-> "", GRB |-> "", path |-> ""],
     result_path |-> <<>>, stack |-> <<>>, raised |-> "none", found |-> TRUE]
IdleRd == [p \in Procs |-> IdleReader]

\* line 41
RdStart(p, target) ==
    /\ rd[p].pc = "idle"
    /\ rd' = [rd EXCEPT ![p] = [IdleReader EXCEPT
                                   !.pc = "L42", !.target = target,
                                   !.result_path = ResultPath(target.path, target.GRB,
                                                              target.model)]]
    /\ UNCHANGED <<dirs, files, heap, fit, cmp, ncalls, ej, mk, ag, sw>>

\* the process returns from its innermost os.makedirs call
MakedirsReturn(proc) ==
    LET rest == SubSeq(proc.stack, 1, Len(proc.stack) - 1)
    IN [proc EXCEPT !.stack = rest, !.pc = IF rest = <<>> THEN "L44" ELSE "makedirs"]

\* an error leaves the innermost os.makedirs call: the makedirs that called
\* it for its head passes over FileExistsError (except FileExistsError: pass)
\* and goes on to its own mkdir; any other error, and any error of the
\* outermost call, goes up to the caller of read_result
MakedirsRaise(proc, error) ==
    IF Len(proc.stack) > 1 /\ error = "FileExistsError"
    THEN MakedirsReturn(proc)
    ELSE [proc EXCEPT !.pc = "done", !.stack = <<>>, !.raised = error]

\* lines 42-43: one system call of the process: os.path.exists(result_path),
\* then inside os.makedirs(result_path) the os.path.exists(head) of a call
\* and its os.mkdir(name)
RdStep(p) ==
    /\ rd[p].pc \in {"L42", "makedirs"}
    /\ LET proc == rd[p]
       IN IF proc.pc = "L42"
          THEN /\ dirs' = dirs
               /\ rd' = [rd EXCEPT ![p] =
                            IF Exists(dirs, files, proc.result_path)
                            THEN [proc EXCEPT !.pc = "L44"]
                            ELSE [proc EXCEPT !.pc = "makedirs", !.found = FALSE,
                                              !.stack = <<MakedirsFrame(proc.result_path,
                                                                        "head")>>]]
          ELSE LET n == Len(proc.stack)
                   top == proc.stack[n]
                   outcome == OsMkdir(dirs, top.path)
               IN IF top.stage = "head"
                  THEN /\ dirs' = dirs
                       /\ rd' = [rd EXCEPT ![p] =
                                    IF Parent(top.path) # top.path
                                          /\ ~Exists(dirs, files, Parent(top.path))
                                    THEN [proc EXCEPT !.stack =
                                             [@ EXCEPT ![n].stage = "mkdir"]
                                             \o <<MakedirsFrame(Parent(top.path), "head")>>]
                                    ELSE [proc EXCEPT !.stack[n].stage = "mkdir"]]
                  ELSE IF outcome = "ok"
                  THEN /\ dirs' = dirs \cup {top.path}
                       /\ rd' = [rd EXCEPT ![p] = MakedirsReturn(proc)]
                  ELSE /\ dirs' = dirs
                       /\ rd' = [rd EXCEPT ![p] =
                                    IF OnFileExists(FALSE, top.path \in dirs) = "raise"
                                    THEN MakedirsRaise(proc, outcome)
                                    ELSE MakedirsReturn(proc)]
    /\ UNCHANGED <<files, heap, fit, cmp, ncalls, ej, mk, ag, sw>>

\* lines 44-50: the read of the result file and load_data
RdRead(p, use_photon_index_prior, readable) ==
    /\ rd[p].pc = "L44"
    /\ LET r == read_in_result(files, ReadFileName(rd[p].result_path,
                                                   use_photon_index_prior))
           d == load_data(rd[p].target.GRB, rd[p].target.path, readable)
       IN rd' = [rd EXCEPT ![p].pc = "done",
                           ![p].raised = IF r.raised # "none" THEN r.raised ELSE d.raised]
    /\ UNCHANGED <<dirs, files, heap, fit, cmp, ncalls, ej, mk, ag, sw>>

NextReaders ==
    \/ \E p \in Procs, target \in RdTargets : RdStart(p, target)
    \/ \E p \in Procs : RdStep(p)
    \/ \E p \in Procs, use_photon_index_prior \in BOOLEAN, readable \in BOOLEAN :
          RdRead(p, use_photon_index_prior, readable)

-----------------------------------------------------------------------------
(* SwiftDataGetter.collect_data (redback/get_data/swift.py), as the tests of *)
(* test/get_data_test.py 236-304 fix it: the raw file is looked for first,   *)
(* the Swift page is asked for next, and one download routine is chosen by   *)
(* instrument, transient type and data mode.                                 *)

SwiftGRBs == {"050202", "GRB050202"}
Instruments == {"BAT+XRT", "XRT"}
TransientTypes == {"afterglow", "prompt"}
SwiftDataModes == {"flux", "flux_density"}

\* a getter: SwiftDataGetter(grb, transient_type, data_mode, instrument)
Getter(grb, transient_type, data_mode, instrument) ==
    [grb |-> grb, transient_type |-> transient_type, data_mode |-> data_mode,
     instrument |-> instrument]

Getters ==
    {Getter(grb, transient_type, data_mode, instrument) :
        grb \in SwiftGRBs, transient_type \in TransientTypes,
        data_mode \in SwiftDataModes, instrument \in Instruments}

\* a call: the getter, what the environment answers (does the raw file exist,
\* does the page have a light curve), the download routines called in order,
\* the warnings logged and the error raised
IdleSw ==
    [pc |-> "idle", getter |-> Getter("", "", "", ""), rawfile_exists |-> FALSE,
     lightcurve_available |-> FALSE, isfile_calls |-> 0, downloads |-> <<>>,
     warnings |-> 0, raised |-> "none"]

\* DownloadRoutine with the flux-density branch missing
DownloadRoutine_FluxOnly(getter) ==
    IF getter.instrument = "XRT" \/ getter.transient_type = "prompt"
    THEN "download_directly"
    ELSE "download_integrated_flux_data"

\* the download routine of a getter (tests 254-304)
DownloadRoutine(getter) ==
    IF getter.instrument = "XRT" \/ getter.transient_type = "prompt"
    THEN "download_directly"
    ELSE IF getter.data_mode = "flux"
    THEN "download_integrated_flux_data"
    ELSE "download_flux_density_data"

\* getter.collect_data()
CollectData(getter, rawfile_exists, lightcurve_available) ==
    /\ sw.pc \in {"idle", "done"}
    /\ sw' = [IdleSw EXCEPT !.pc = "isfile", !.getter = getter,
                            !.rawfile_exists = rawfile_exists,
                            !.lightcurve_available = lightcurve_available]
    /\ UNCHANGED <<dirs, files, heap, fit, cmp, ncalls, ej, mk, ag, rd>>

\* os.path.isfile(raw_file_path): an existing raw file ends the call with one
\* warning (test 236-243)
SwIsFile ==
    /\ sw.pc = "isfile"
    /\ sw' = IF sw.rawfile_exists
             THEN [sw EXCEPT !.pc = "done", !.isfile_calls = @ + 1, !.warnings = @ + 1]
             ELSE [sw EXCEPT !.pc = "request", !.isfile_calls = @ + 1]
    /\ UNCHANGED <<dirs, files, heap, fit, cmp, ncalls, ej, mk, ag, rd>>

\* requests.get(grb_website): a page saying 'No Light curve available' ends the
\* call with WebsiteExist (test 245-252)
SwRequest ==
    /\ sw.pc = "request"
    /\ sw' = IF sw.lightcurve_available
             THEN [sw EXCEPT !.pc = "download"]
             ELSE [sw EXCEPT !.pc = "done", !.raised = "WebsiteExist"]
    /\ UNCHANGED <<dirs, files, heap, fit, cmp, ncalls, ej, mk, ag, rd>>

\* the download (tests 254-304)
SwDownload ==
    /\ sw.pc = "download"
    /\ sw' = [sw EXCEPT !.pc = "done", !.downloads = Append(@, DownloadRoutine(sw.getter))]
    /\ UNCHANGED <<dirs, files, heap, fit, cmp, ncalls, ej, mk, ag, rd>>

NextSwift ==
    \/ \E getter \in Getters, rawfile_exists \in BOOLEAN, lightcurve_available \in BOOLEAN :
          CollectData(getter, rawfile_exists, lightcurve_available)
    \/ SwIsFile
    \/ SwRequest
    \/ SwDownload

-----
(* The fitting and comparison system *)

Init ==
    /\ dirs = InitDirs
    /\ files = InitFiles
    /\ heap = CallerPrior
    /\ fit = IdleFit
    /\ cmp = IdleCmp
    /\ ncalls = 0
    /\ ej = IdleEj
    /\ mk = IdleMk
    /\ ag = IdleAg
    /\ rd = IdleRd
    /\ sw = IdleSw

Next ==
    \/ \E a \in FitCalls :
            FitModel(a.name, a.transient, a.model, a.outdir, a.prior,
                     a.use_photon_index_prior, a.data_mode, a.save_format, a.kwargs)
    \/ ResolveModel
    \/ LoadPrior
    \/ Dispatch
    \/ FitGrbPrior
    \/ FitMkdir
    \/ FitLikelihood
    \/ FitRunSampler
    \/ \E model \in RegisteredNames, GRB \in GRBs, path \in Outdirs,
          use_photon_index_prior \in BOOLEAN, readable \in BOOLEAN :
            ReadResult(model, GRB, path, use_photon_index_prior, readable)
    \/ \E model1 \in RegisteredNames, model2 \in RegisteredNames, GRB \in GRBs,
          path \in Outdirs, use_photon_index_prior \in BOOLEAN,
          readable1 \in BOOLEAN, readable2 \in BOOLEAN :
            CalculateBF(model1, model2, GRB, path, use_photon_index_prior,
                        readable1, readable2)

Spec == Init /\ [][Next]_vars

(* The ejecta relations *)

NextEjecta ==
    \/ \E cls \in BNSClasses, args \in BNSArgs : Construct(cls, args)
    \/ \E args \in NSBHArgs : Construct("OneComponentNSBH", args)
    \/ InitStep
    \/ \E cls \in BNSClasses, args \in BNSArgs : Evaluate(cls, args)
    \/ \E args \in NSBHArgs : Evaluate("OneComponentNSBH", args)
    \/ Discard

SpecEjecta == Init /\ [][NextEjecta]_vars

SpecMkdir == Init /\ [][NextMkdir]_vars

SpecModels == Init /\ [][NextModels]_vars

SpecReaders == Init /\ [][NextReaders]_vars

SpecSwift == Init /\ [][NextSwift]_vars

-----------------------------------------------------------------------------
(* Claims *)

SupportedClasses == {"Afterglow", "Kilonova", "PromptTimeSeries", "Supernova", "TDE"}

Range(seq) == {seq[i] : i \in DOMAIN seq}

Unsupported == fit.args.transient.class \notin SupportedClasses

UnregisteredName == fit.args.model.is_str /\ fit.args.model.v \notin RegisteredNames

\* C1 as stated: a fit_model call with a transient of none of the five
\* supported classes ends with the unsupported-transient-type error (the
\* ValueError of line 76), no directory created and the sampler not invoked.
C1_UnsupportedRaisesValueError ==
    (fit.pc = "done" /\ Unsupported) =>
        /\ fit.raised = "ValueError"
        /\ dirs = fit.dirs0 /\ files = fit.files0
        /\ fit.sampler_calls = 0

\* C1 amended: such a call always ends with an error, the file system as it was
\* and the sampler not invoked; the error is the ValueError of line 76 exactly
\* when the two statements before the dispatch pass (the model is a callable or
\* a registered name, and the caller supplied a prior), a KeyError for an
\* unregistered name, and otherwise the error of the prior-file load of line 47.
C1_UnsupportedFailsBeforeAnyWork ==
    (fit.pc = "done" /\ Unsupported) =>
        /\ fit.returned = "raised"
        /\ dirs = fit.dirs0 /\ files = fit.files0
        /\ fit.sampler_calls = 0
        /\ "mkdir" \notin Range(fit.trace)
        /\ fit.raised = IF UnregisteredName THEN "KeyError"
                        ELSE IF fit.args.prior = "None" THEN "FileNotFoundError"
                        ELSE "ValueError"

C1_Witness ==
    /\ fit.pc = "done" /\ Unsupported
    /\ fit.raised = "ValueError"
    /\ fit.trace = <<"lookup", "dispatch">>

\* C2 as stated: a fit_model call on a supported kind that ends without an
\* error has prepared the output directory, invoked the sampler exactly once
\* and returns the sampler's result.
C2_SupportedKindsRunSampler ==
    (fit.pc = "done" /\ ~Unsupported /\ fit.raised = "none") =>
        /\ fit.sampler_calls = 1
        /\ fit.outdir \in dirs
        /\ fit.returned = "result"
        /\ fit.written \in DOMAIN files /\ files[fit.written] = fit.result

\* C3 as stated: the file a fit persisted its result to is the file read_result
\* reads for the same transient, model, base path and use_photon_index_prior,
\* and what is loaded has the persisted log_evidence and posterior row count.
C3_RoundTrip ==
    (fit.pc = "done" /\ fit.returned = "result") =>
        LET r == read_result(dirs, files, FunctionName(fit.model), fit.args.name,
                             fit.args.outdir, fit.args.use_photon_index_prior, TRUE)
        IN /\ r.filename = fit.written
           /\ r.raised = "none"
           /\ r.result.log_evidence = fit.result.log_evidence
           /\ r.result.nrows = fit.result.nrows

\* the file that holds the stored result of (transient, model, variant)
StoredResult(path, GRB, model, use_photon_index_prior) ==
    <<path, "GRB" \o GRB, model,
      IF use_photon_index_prior THEN "photon_index_result.json" ELSE "result_result.json">>

StoredA == StoredResult(cmp.path, cmp.GRB, cmp.model1, cmp.use_photon_index_prior)
StoredB == StoredResult(cmp.path, cmp.GRB, cmp.model2, cmp.use_photon_index_prior)

\* C4 as stated: whenever the results of both models are in the store for the
\* transient and the variant asked for, calculate_BF returns
\* log_evidence(result_a) - log_evidence(result_b).
C4_ReturnsWheneverBothStored ==
    (cmp.op = "calculate_BF" /\ StoredA \in DOMAIN files /\ StoredB \in DOMAIN files) =>
        /\ cmp.returned = "value"
        /\ cmp.logBF = files[StoredA].log_evidence - files[StoredB].log_evidence

\* C4 amended: with both results in the store, calculate_BF either returns
\* log_evidence(result_a) - log_evidence(result_b), having read exactly the two
\* result files of the transient and the variant asked for, or raises what
\* load_data raised (read_result loads the transient's data after each result);
\* and it returns a number in no other case.
C4_BayesFactorIsDifference ==
    cmp.op = "calculate_BF" =>
        /\ (StoredA \in DOMAIN files /\ StoredB \in DOMAIN files) =>
              \/ /\ cmp.returned = "value"
                 /\ cmp.read = <<StoredA, StoredB>>
                 /\ cmp.logBF = files[StoredA].log_evidence - files[StoredB].log_evidence
              \/ /\ cmp.returned = "raised" /\ cmp.raised = "DataError"
        /\ cmp.returned = "value" =>
              (StoredA \in DOMAIN files /\ StoredB \in DOMAIN files)

C4_Witness ==
    /\ cmp.op = "calculate_BF" /\ cmp.returned = "value"
    /\ cmp.model1 = "tophat" /\ cmp.model2 = "cocoon"
    /\ cmp.read = <<StoredA, StoredB>>
    /\ cmp.logBF = -2

\* C5 as stated: when the stored result of either model is absent,
\* calculate_BF raises the result-not-found error naming a result that is
\* missing, returns no number, and no fit is started.
C5_MissingResultNamed ==
    (cmp.op = "calculate_BF" /\ (StoredA \notin DOMAIN files \/ StoredB \notin DOMAIN files)) =>
        /\ cmp.returned = "raised" /\ cmp.raised = "IOError"
        /\ cmp.missing \in {StoredA, StoredB} \ DOMAIN files
        /\ fit.pc = "idle" /\ fit.sampler_calls = 0

\* C5 amended: when the stored result of either model is absent, calculate_BF
\* raises and returns no number, and no fit is started; the error is the
\* reader's, naming the missing file (the first model's when that one is
\* missing), except that when only the second result is missing and load_data
\* fails after the first result was read, it is load_data's error.
C5_MissingResultRaises ==
    (cmp.op = "calculate_BF" /\ (StoredA \notin DOMAIN files \/ StoredB \notin DOMAIN files)) =>
        /\ cmp.returned = "raised"
        /\ cmp.raised \in {"IOError", "DataError"}
        /\ cmp.raised = "IOError" => cmp.missing \in {StoredA, StoredB} \ DOMAIN files
        /\ StoredA \notin DOMAIN files => (cmp.raised = "IOError" /\ cmp.missing = StoredA)
        /\ cmp.raised = "DataError" => cmp.read = <<StoredA>>
        /\ fit.pc = "idle" /\ fit.sampler_calls = 0

C5_Witness ==
    /\ cmp.op = "calculate_BF" /\ cmp.returned = "raised"
    /\ StoredA \in DOMAIN files
    /\ cmp.raised = "IOError"
    /\ cmp.missing = StoredB

\* C6: in a GRB fit with use_photon_index_prior set, from the prior step on, the
\* prior on alpha_1 (of the prior object, and of what the sampler is given) is
\* Uniform(-10, -0.5) for a negative photon index and Gaussian(mu = -(photon
\* index + 1), sigma = 0.1) otherwise, 0 included; mu = -2.5 for 1.5.
C6_PhotonIndexPrior ==
    (fit.fn = "_fit_grb" /\ fit.args.use_photon_index_prior
       /\ fit.pc \in {"mkdir", "likelihood", "sampler", "done"}) =>
        LET photon_index == fit.args.transient.photon_index
            alpha_1 == heap[fit.prior].alpha_1
        IN /\ photon_index < 0 =>
                (alpha_1.dist = "Uniform" /\ alpha_1.p1 = -100 /\ alpha_1.p2 = -5)
           /\ photon_index >= 0 =>
                (alpha_1.dist = "Gaussian" /\ alpha_1.p1 = -(photon_index + 10)
                   /\ alpha_1.p2 = 1)
           /\ photon_index = 15 => alpha_1.p1 = -25
           /\ fit.sampler_calls > 0 => fit.sampler_args.priors.alpha_1 = alpha_1

C6_Witness ==
    /\ fit.pc = "done" /\ fit.fn = "_fit_grb" /\ fit.args.use_photon_index_prior
    /\ fit.args.transient.photon_index = 0
    /\ fit.sampler_calls = 1
    /\ fit.sampler_args.priors.alpha_1 = Gaussian(-10, 1)

\* C7 as stated: a fit run with use_photon_index_prior=False on a prior object
\* the caller holds gives the sampler the prior the caller built.
C7_PriorReplacementConfined ==
    (fit.sampler_calls > 0 /\ ~fit.args.use_photon_index_prior
       /\ fit.args.prior \in PriorIds) =>
        fit.sampler_args.priors = CallerPrior[fit.args.prior]

\* C8: a fit_model call with a model name that is no key of the registry ends
\* at the lookup with a LookupError, before the prior file is read, a directory
\* created or the sampler invoked.
C8_UnknownModelLookupError ==
    (fit.pc \notin {"idle", "L43"} /\ UnregisteredName) =>
        /\ fit.pc = "done" /\ fit.returned = "raised"
        /\ IsLookupError(fit.raised)
        /\ fit.trace = <<"lookup">>
        /\ dirs = fit.dirs0 /\ files = fit.files0
        /\ fit.sampler_calls = 0

C8_Witness ==
    /\ fit.pc = "done" /\ UnregisteredName
    /\ fit.args.prior = "None"
    /\ fit.raised = "KeyError"

\* C9 as stated: constructing any of the three classes on valid inputs raises
\* nothing and yields an object with ejecta_mass and ejecta_velocity (and qej,
\* phej for the two BNS classes).
C9_ConstructionSucceeds ==
    ej.pc \in {"raised", "constructed"} =>
        /\ ej.raised = "none"
        /\ {"ejecta_mass", "ejecta_velocity"} \subseteq DOMAIN ej.self
        /\ ej.cls \in BNSClasses => {"qej", "phej"} \subseteq DOMAIN ej.self

C12_CompactnessReference ==
    (ej.pc # "idle" /\ ej.cls \in BNSClasses /\ ej.self.lambda_1 = 300) =>
        (ej.self.c1 + 50) \div 100 = 1473

\* C12 amended: calc_compactness_from_lambda(300), evaluated by the formula
\* 0.371 - 0.0391*ln(300) + 0.001056*(ln 300)^2, is 0.1823 to four decimals;
\* the same for the second star's compactness.
C12_CompactnessValue ==
    (ej.pc # "idle" /\ ej.cls \in BNSClasses) =>
        /\ ej.self.lambda_1 = 300 => (ej.self.c1 + 50) \div 100 = 1823
        /\ ej.self.lambda_2 = 300 => (ej.self.c2 + 50) \div 100 = 1823

C12_Witness ==
    /\ ej.pc = "evaluated" /\ ej.cls \in BNSClasses
    /\ ej.self.lambda_1 = 300
    /\ ej.self.c1 > 182000 /\ ej.self.c1 < 182600

\* C13 as stated: calculate_BF with the same model on both sides, for a
\* transient whose result is in the store, returns exactly 0.
C13_SameModelReturnsZero ==
    (cmp.op = "calculate_BF" /\ cmp.model1 = cmp.model2 /\ StoredA \in DOMAIN files) =>
        (cmp.returned = "value" /\ cmp.logBF = 0)

\* C13 amended: calculate_BF with the same model on both sides, for a transient
\* whose result is in the store, reads that one result file twice and returns
\* exactly 0, unless the data load that follows either read fails, in which case
\* it raises load_data's error; with the result absent it returns nothing.
C13_SameModelZero ==
    (cmp.op = "calculate_BF" /\ cmp.model1 = cmp.model2) =>
        /\ StoredA \in DOMAIN files =>
              \/ /\ cmp.returned = "value" /\ cmp.logBF = 0
                 /\ cmp.read = <<StoredA, StoredA>>
              \/ /\ cmp.returned = "raised" /\ cmp.raised = "DataError"
        /\ StoredA \notin DOMAIN files => cmp.returned = "raised"

C13_Witness ==
    /\ cmp.op = "calculate_BF" /\ cmp.model1 = "tophat" /\ cmp.model2 = "tophat"
    /\ cmp.returned = "value" /\ cmp.logBF = 0
    /\ files[StoredA].log_evidence # 0

DocumentedDataModes == {"flux", "flux_density", "luminosity"}

\* C14 as stated: the label given to the sampler is one of flux, flux_density,
\* luminosity, followed by _photon_index exactly when use_photon_index_prior
\* is set.
C14_LabelInDocumentedSet ==
    fit.sampler_calls > 0 =>
        \E m \in DocumentedDataModes :
            fit.sampler_args.label =
                (IF fit.args.use_photon_index_prior THEN m \o "_photon_index" ELSE m)

\* C14 amended: the label given to the sampler is the data_mode argument as the
\* caller passed it, followed by _photon_index exactly when
\* use_photon_index_prior is set; it is one of flux, flux_density, luminosity
\* (with that suffix) when, and only when, the data_mode passed is one of them.
C14_LabelIsDataMode ==
    fit.sampler_calls > 0 =>
        /\ fit.args.use_photon_index_prior =>
              fit.sampler_args.label = fit.args.data_mode \o "_photon_index"
        /\ ~fit.args.use_photon_index_prior =>
              fit.sampler_args.label = fit.args.data_mode
        /\ fit.args.data_mode \in DocumentedDataModes <=> C14_LabelInDocumentedSet

C14_Witness ==
    /\ fit.sampler_calls = 1 /\ fit.args.use_photon_index_prior
    /\ fit.args.data_mode = "flux"
    /\ fit.sampler_args.label = "flux_photon_index"

ReachedSampler == fit.pc = "sampler" \/ fit.sampler_calls > 0

C16_DistinctKeysDistinctFiles ==
    (fit.returned = "result" /\ fit.prev.written # <<>>
       /\ ResultKey(fit.args.name, FunctionName(fit.model), fit.label) # fit.prev.key) =>
        fit.written # fit.prev.written

\* C18: when the sampler raises during a fit, the call of fit_model ends
\* raising that same error, the sampler has been invoked once and not again,
\* and no result file was written or changed during the call.
C18_SamplerErrorPropagates ==
    fit.sampler_raised # "none" =>
        /\ fit.pc = "done" /\ fit.returned = "raised"
        /\ fit.raised = fit.sampler_raised
        /\ fit.sampler_calls = 1
        /\ files = fit.files0 /\ fit.written = <<>>

C18_Witness ==
    /\ fit.pc = "done"
    /\ fit.sampler_raised = "RuntimeError" /\ fit.raised = "RuntimeError"
    /\ fit.sampler_calls = 1

\* the position of a step in the trace of the call, 0 when it has not happened
Pos(step) ==
    IF \E i \in DOMAIN fit.trace : fit.trace[i] = step
    THEN CHOOSE i \in DOMAIN fit.trace : fit.trace[i] = step
    ELSE 0

IsPrefix(s, t) == Len(s) <= Len(t) /\ SubSeq(t, 1, Len(s)) = s

\* C20 as stated: in a fit that reaches the sampler the steps come in the order
\* kind selection, likelihood and prior selection (the photon-index prior
\* replacement included), output-directory creation, sampler invocation.
C20_StatedStepOrder ==
    Pos("sampler") > 0 =>
        /\ 0 < Pos("dispatch") /\ Pos("dispatch") < Pos("likelihood")
        /\ Pos("likelihood") < Pos("mkdir")
        /\ Pos("mkdir") < Pos("sampler")
        /\ Pos("alpha_1") > 0 =>
              (Pos("dispatch") < Pos("alpha_1") /\ Pos("alpha_1") < Pos("mkdir"))

\* the steps of a call in the order of the code, for its arguments
StepsOf(args) ==
    <<"lookup">>
    \o (IF args.prior = "None" THEN <<"prior_file">> ELSE <<>>)
    \o <<"dispatch">>
    \o (IF args.transient.class = "Afterglow" /\ args.use_photon_index_prior
        THEN <<"alpha_1">> ELSE <<>>)
    \o <<"mkdir", "likelihood", "sampler">>

\* C20 amended: in every fit run the steps happen one after the other in the
\* order: model lookup, prior selection (the prior file, when the caller gave
\* no prior), transient-kind selection, photon-index prior replacement (GRB
\* fits with the flag), output-directory creation, label and likelihood
\* construction, sampler invocation; a run that returns a result has taken
\* all of them.
C20_StepOrder ==
    fit.pc # "idle" =>
        /\ IsPrefix(fit.trace, StepsOf(fit.args))
        /\ fit.returned = "result" => fit.trace = StepsOf(fit.args)
        /\ Pos("sampler") > 0 =>
              (Pos("dispatch") < Pos("mkdir") /\ Pos("mkdir") < Pos("likelihood")
                 /\ Pos("likelihood") < Pos("sampler"))

C20_Witness ==
    /\ fit.returned = "result"
    /\ fit.trace = <<"lookup", "dispatch", "alpha_1", "mkdir", "likelihood", "sampler">>

\* C17: when two processes create the output directories of their fits
\* concurrently, under every interleaving of their os.mkdir steps, neither
\* directory creation raises, a creation under way can always take its next
\* step and takes at most 2 * depth - 1 of them, and when one is complete its
\* output directory and all its parents exist.
C17_ConcurrentMkdir ==
    \A p \in Procs :
        /\ mk[p].raised = "none"
        /\ mk[p].pc = "running" => mk[p].stack # <<>>
        /\ Len(mk[p].events) <= 2 * Len(mk[p].target) - 1 \/ mk[p].pc = "idle"
        /\ mk[p].pc = "done" =>
              {SubSeq(mk[p].target, 1, k) : k \in 1..Len(mk[p].target)} \subseteq dirs

\* two fits of different models of one transient, whose shared parent directory
\* was absent when both started: the first loses the race for the parent
C17_Witness ==
    /\ mk[1].pc = "done" /\ mk[2].pc = "done"
    /\ mk[1].target # mk[2].target
    /\ Parent(mk[1].target) = Parent(mk[2].target)
    /\ Parent(mk[1].target) \notin mk[1].dirs0 \cup mk[2].dirs0
    /\ mk[1].events = <<"FileNotFoundError", "FileExistsError", "ok">>
    /\ mk[2].events = <<"FileNotFoundError", "ok", "ok">>
    /\ {mk[1].target, mk[2].target} \subseteq dirs

\* the inputs of an invocation recorded in the log
InputsOf(entry) == <<entry.model, entry.time, entry.params, ag.configs[entry.config]>>

(* C19: a jet-afterglow model function keeps no state between calls: two     *)
(* calls of the same model with identical time, parameters and configuration *)
(* hand the solver identical times, frequency and configuration record,      *)
(* whatever the order and the interleaving with calls of other models; the   *)
(* jet type handed over is the one the module registers for the model, and   *)
(* neither the caller's configuration nor the module's dictionaries change.  *)
C19_NoCrossCallState ==
    /\ ag.configs = CallerConfigs
    /\ ag.module = ModuleState
    /\ \A i \in DOMAIN ag.log, j \in DOMAIN ag.log :
          InputsOf(ag.log[i]) = InputsOf(ag.log[j])
              => ag.log[i].handed = ag.log[j].handed
    /\ \A i \in DOMAIN ag.log :
          LET e == ag.log[i]
          IN /\ e.handed.Z.jetType = ModuleState.jettype_dict[JetKey[e.model]]
             /\ e.handed.Z.specType = CallerConfigs[e.config].spectype
             /\ e.model # "tophat_integrated"
                   => /\ e.handed.time = e.time
                      /\ e.handed.frequency = CallerConfigs[e.config].frequency

\* two workers made the same cone_afterglow call, a call of another model
\* reached the solver between them, and a third call is in progress
C19_Witness ==
    /\ Len(ag.log) = 3
    /\ ag.log[1].model = "cone_afterglow"
    /\ ag.log[2].model = "tophat"
    /\ InputsOf(ag.log[1]) = InputsOf(ag.log[3])
    /\ ag.log[1].worker # ag.log[3].worker
    /\ ag.log[1].handed.Z.thetaWing = 6
    /\ ag.log[1].handed.Z.E0 = 1000

(* C21: what the sampler is given as likelihood.  An afterglow or kilonova   *)
(* fit gives it a Gaussian likelihood of the model built from x, y and       *)
(* sigma = y_err: the filtered arrays when the transient holds flux-density  *)
(* or photometry data, the transient's own arrays otherwise.  A prompt fit   *)
(* gives it a Poisson likelihood built from time = x, counts = y and         *)
(* dt = bin_size, with integrated_rate_function TRUE unless the caller       *)
(* passed another value.                                                     *)
C21_LikelihoodByKind ==
    fit.sampler_calls > 0 =>
        LET L == fit.sampler_args.likelihood
            t == fit.args.transient
        IN /\ t.class \in {"Afterglow", "Kilonova"} =>
                /\ L.class = "GaussianLikelihood"
                /\ L.function = FunctionName(fit.model)
                /\ (t.flux_density_data \/ t.photometry_data) =>
                      (L.x = <<1, 3>> /\ L.y = <<10, 30>> /\ L.sigma = <<1, 3>>)
                /\ ~(t.flux_density_data \/ t.photometry_data) =>
                      (L.x = TransientArrays.x /\ L.y = TransientArrays.y
                         /\ L.sigma = TransientArrays.y_err)
           /\ t.class = "PromptTimeSeries" =>
                /\ L.class = "PoissonLikelihood"
                /\ L.function = FunctionName(fit.model)
                /\ L.time = TransientArrays.x /\ L.counts = TransientArrays.y
                /\ L.dt = TransientArrays.bin_size
                /\ L.integrated_rate_function =
                      (IF "integrated_rate_function" \in fit.args.kwargs.keys
                       THEN fit.args.kwargs.integrated_rate_function ELSE TRUE)

\* a kilonova holding photometry data reached the sampler with the filtered
\* arrays
C21_Witness ==
    /\ fit.pc = "done" /\ fit.sampler_calls = 1
    /\ fit.args.transient.class = "Kilonova" /\ fit.args.transient.photometry_data
    /\ fit.sampler_args.likelihood.class = "GaussianLikelihood"
    /\ fit.sampler_args.likelihood.sigma = <<1, 3>>

\* C26 as stated: with prior=None the prior is loaded from the file
\* Priors/<model name>.prior, whether the model was given by name or as a
\* callable.
C26_PriorFileIsModelName ==
    (fit.args.prior = "None" /\ fit.prior_file # "") =>
        /\ fit.prior_file = "Priors/" \o FunctionName(fit.model) \o ".prior"
        /\ fit.raised # "FileNotFoundError"

\* C27 as stated: an afterglow or kilonova fit called with a likelihood keyword
\* invokes the sampler exactly once, with that likelihood, and ends without an
\* argument error.
C27_CallerLikelihoodUsed ==
    (fit.pc = "done" /\ fit.fn \in {"_fit_grb", "_fit_kilonova"}
       /\ "likelihood" \in fit.args.kwargs.keys) =>
        /\ fit.sampler_calls = 1
        /\ fit.sampler_args.likelihood.class = fit.args.kwargs.likelihood
        /\ fit.raised # "TypeError"

\* C28 as stated: a read_result or calculate_BF call, successful or failed,
\* leaves the set of directories and files as it was.
C28_ReadersOnlyRead ==
    [][(ncalls' = ncalls + 1 /\ cmp'.op # "none") => (dirs' = dirs /\ files' = files)]_vars

(* C30: the prior the sampler is given has the entries of the prior the      *)
(* fitter was given, except alpha_1 in an afterglow fit with                 *)
(* use_photon_index_prior.  In a kilonova or prompt fit the prior object is  *)
(* never assigned to and transient.photon_index is never accessed (the       *)
(* attributes reach the sampler only inside the meta data, copied from       *)
(* __dict__), whatever the flag, and the flag adds _photon_index to the      *)
(* label.                                                                    *)
C30_PriorFrame ==
    /\ fit.sampler_calls > 0 =>
          /\ DOMAIN fit.sampler_args.priors = DOMAIN fit.prior0
          /\ \A k \in DOMAIN fit.prior0 :
                (k # "alpha_1" \/ ~(fit.args.transient.class = "Afterglow"
                                      /\ fit.args.use_photon_index_prior))
                    => fit.sampler_args.priors[k] = fit.prior0[k]
    /\ (fit.args.transient.class \in {"Kilonova", "PromptTimeSeries"}
          /\ fit.fn # "" /\ fit.pc \in {"mkdir", "likelihood", "sampler", "done"}) =>
          /\ heap[fit.prior] = fit.prior0
          /\ "photon_index" \notin fit.reads
          /\ fit.sampler_calls > 0 =>
                /\ fit.sampler_args.priors = fit.prior0
                /\ fit.sampler_args.label =
                      (IF fit.args.use_photon_index_prior
                       THEN fit.args.data_mode \o "_photon_index"
                       ELSE fit.args.data_mode)

\* a kilonova with a negative photon index, fitted with the flag set
C30_Witness ==
    /\ fit.pc = "done" /\ fit.sampler_calls = 1
    /\ fit.args.transient.class = "Kilonova" /\ fit.args.transient.photon_index < 0
    /\ fit.args.use_photon_index_prior
    /\ fit.sampler_args.label = "flux_photon_index"
    /\ fit.sampler_args.priors = fit.prior0

\* C29 as stated: two read_result calls running concurrently for the same
\* transient and model never fail with a directory-already-exists error.
C29_NoDirectoryExistsError ==
    \A p \in Procs, q \in Procs :
        (p # q /\ rd[p].target = rd[q].target) => rd[p].raised # "FileExistsError"

\* C25 as stated: nothing is downloaded and one warning is logged when the raw
\* file exists; otherwise exactly one download routine is called, chosen by
\* instrument, transient type and data mode.
C25_ExactlyOneDownload ==
    sw.pc = "done" =>
        IF sw.rawfile_exists
        THEN sw.downloads = <<>> /\ sw.warnings = 1
        ELSE sw.downloads = <<DownloadRoutine(sw.getter)>>

(* C25: collect_data downloads nothing and logs one warning when the raw     *)
(* file exists; otherwise, unless the Swift page reports that no light curve *)
(* is available (then it raises WebsiteExist), it calls exactly one download *)
(* routine: download_directly for XRT or a prompt transient,                 *)
(* download_integrated_flux_data for a BAT+XRT afterglow in flux mode,       *)
(* download_flux_density_data for one in flux_density mode.                  *)
C25_CollectData ==
    sw.pc = "done" =>
        LET g == sw.getter
        IN /\ sw.isfile_calls = 1
           /\ sw.rawfile_exists =>
                 (sw.downloads = <<>> /\ sw.warnings = 1 /\ sw.raised = "none")
           /\ (~sw.rawfile_exists /\ ~sw.lightcurve_available) =>
                 sw.raised = "WebsiteExist"
           /\ (~sw.rawfile_exists /\ sw.lightcurve_available) =>
                 /\ Len(sw.downloads) = 1 /\ sw.warnings = 0 /\ sw.raised = "none"
                 /\ (g.instrument = "XRT" \/ g.transient_type = "prompt") =>
                       sw.downloads[1] = "download_directly"
                 /\ (g.instrument = "BAT+XRT" /\ g.transient_type = "afterglow"
                       /\ g.data_mode = "flux") =>
                       sw.downloads[1] = "download_integrated_flux_data"
                 /\ (g.instrument = "BAT+XRT" /\ g.transient_type = "afterglow"
                       /\ g.data_mode = "flux_density") =>
                       sw.downloads[1] = "download_flux_density_data"

\* a BAT+XRT afterglow getter in flux_density mode downloaded its data
C25_Witness ==
    /\ sw.pc = "done" /\ ~sw.rawfile_exists
    /\ sw.getter.instrument = "BAT+XRT" /\ sw.getter.transient_type = "afterglow"
    /\ sw.getter.data_mode = "flux_density"
    /\ sw.downloads = <<"download_flux_density_data">>

\* the models C22 names, the words of their names and the words of the keys
\* of jettype_dict
NamedModels ==
    {"tophat", "gaussian", "gaussiancore", "powerlawcore", "smoothpowerlaw",
     "cone_afterglow", "cocoon", "kn_afterglow"}
ModelNameWords ==
    [tophat |-> {"tophat"}, gaussian |-> {"gaussian"},
     gaussiancore |-> {"gaussian", "core"}, powerlawcore |-> {"powerlaw", "core"},
     smoothpowerlaw |-> {"smooth", "powerlaw"}, cone_afterglow |-> {"cone"},
     cocoon |-> {"cocoon"}, kn_afterglow |-> {"kn"}]
JetKeyWords ==
    [tophat |-> {"tophat"}, gaussian |-> {"gaussian"},
     powerlaw_w_core |-> {"powerlaw", "core"}, gaussian_w_core |-> {"gaussian", "core"},
     cocoon |-> {"cocoon"}, smooth_power_law |-> {"smooth", "powerlaw"},
     cone |-> {"cone"}]
OwnJetKeys(model) == {k \in DOMAIN JetKeyWords : JetKeyWords[k] = ModelNameWords[model]}

\* the energy the solver is handed: Er of the spherical models, E0 of the jets
HandedEnergy(entry) ==
    IF entry.model \in SphericalModels THEN entry.handed.Z.Er ELSE entry.handed.Z.E0
LogEnergy(entry) ==
    IF entry.model \in SphericalModels THEN entry.params.logEi ELSE entry.params.loge0

\* 10 ** x for the exponents drawn
Ten(x) == CASE x = 0 -> 1 [] x = 1 -> 10 [] x = 2 -> 100 [] x = 3 -> 1000 [] x = 4 -> 10000

\* energy, density and efficiencies are 10 ** the log input; spread, latres,
\* tres, spectype and frequency are the configuration's
TransformOf(entry) ==
    LET Z == entry.handed.Z
        config == CallerConfigs[entry.config]
    IN /\ HandedEnergy(entry) = Ten(LogEnergy(entry))
       /\ Z.n0 = Ten(entry.params.logn0)
       /\ Z.epsilon_e = Ten(entry.params.logepse)
       /\ Z.epsilon_B = Ten(entry.params.logepsb)
       /\ Z.spread = config.spread /\ Z.latRes = config.latres /\ Z.tRes = config.tres
       /\ Z.specType = config.spectype
       /\ entry.handed.frequency = config.frequency

\* C22 as stated: each of the eight functions passes the solver the jet type
\* registered under its own model name, and the transformed inputs.
C22_JetTypeOfOwnName ==
    \A i \in DOMAIN ag.log :
        ag.log[i].model \in NamedModels =>
            /\ \E k \in OwnJetKeys(ag.log[i].model) :
                  ag.log[i].handed.Z.jetType = ModuleState.jettype_dict[k]
            /\ TransformOf(ag.log[i])

(* C22: each of the eight functions passes the solver the jet type the       *)
(* module registers under the key the function names - tophat, gaussian,     *)
(* gaussian_w_core, powerlaw_w_core, smooth_power_law, cone, cocoon for the  *)
(* functions of those names, and the cocoon (spherical) type for             *)
(* kn_afterglow, which has no entry of its own - with energy, density,       *)
(* epsilon_e and epsilon_B equal to 10 to the log input and spread, latres,  *)
(* tres, spectype and frequency as in its configuration.                     *)
C22_JetTypeAndTransform ==
    \A i \in DOMAIN ag.log :
        ag.log[i].model \in NamedModels =>
            /\ ag.log[i].handed.Z.jetType =
                  (CASE ag.log[i].model = "tophat" -> "TopHat"
                     [] ag.log[i].model = "gaussian" -> "Gaussian"
                     [] ag.log[i].model = "gaussiancore" -> "GaussianCore"
                     [] ag.log[i].model = "powerlawcore" -> "PowerLawCore"
                     [] ag.log[i].model = "smoothpowerlaw" -> "PowerLaw"
                     [] ag.log[i].model = "cone_afterglow" -> "Cone"
                     [] ag.log[i].model \in {"cocoon", "kn_afterglow"} -> "Spherical")
            /\ TransformOf(ag.log[i])

\* kn_afterglow handed the solver the spherical type and Er = 10 ** 2
C22_Witness ==
    \E i \in DOMAIN ag.log :
        /\ ag.log[i].model = "kn_afterglow"
        /\ ag.log[i].handed.Z.jetType = "Spherical"
        /\ ag.log[i].handed.Z.Er = 100
        /\ ag.log[i].handed.Z.n0 = 10000

(* C23: tophat_integrated hands the solver 3 * len(time) (time, frequency)   *)
(* pairs, pair i * len(time) + j being time j with the i-th of the 3 equally *)
(* spaced frequencies between the bounds; the solver's value at that flat    *)
(* index is taken as the value of frequency i and time j; and one value per  *)
(* requested time is returned, in the order of the times, the Simpson        *)
(* integral over the three frequencies (in units of the 1e-26 prefactor).    *)
C23_IntegratedGrid ==
    \A e \in DOMAIN ag.log :
        ag.log[e].model = "tophat_integrated" =>
            LET entry == ag.log[e]
                n == Len(entry.time)
                bounds == CallerConfigs[entry.config].frequency
                nu == <<bounds[1], (bounds[1] + bounds[2]) \div 2, bounds[2]>>
                ret == entry.returned
            IN /\ Len(entry.handed.time) = 3 * n /\ Len(entry.handed.frequency) = 3 * n
               /\ nu[2] - nu[1] = nu[3] - nu[2]
               /\ \A i \in 1..3, j \in 1..n :
                     /\ entry.handed.time[(i - 1) * n + j] = entry.time[j]
                     /\ entry.handed.frequency[(i - 1) * n + j] = nu[i]
                     /\ ret.lightcurve_at_nu[i][j] = ret.fluxdensity[(i - 1) * n + j]
                     /\ ret.lightcurve_at_nu[i][j] = FluxDensityAt(entry.time[j], nu[i])
               /\ Len(ret.value) = n
               /\ \A j \in 1..n :
                     6 * ret.value[j] =
                        (nu[3] - nu[1]) * (FluxDensityAt(entry.time[j], nu[1])
                                             + 4 * FluxDensityAt(entry.time[j], nu[2])
                                             + FluxDensityAt(entry.time[j], nu[3]))
               /\ ret.exp10 = -26

\* tophat_integrated returned the integrals 1200 * t + 208 for t = 1 and t = 10
C23_Witness ==
    \E e \in DOMAIN ag.log :
        /\ ag.log[e].model = "tophat_integrated"
        /\ ag.log[e].handed.frequency = <<2, 2, 4, 4, 6, 6>>
        /\ ag.log[e].returned.value = <<1408, 12208>>

\* a call that reached the solver took its frequency from its configuration
FrequencyFromConfig(entry) ==
    LET f == CallerConfigs[entry.config].frequency
    IN IF entry.model = "tophat_integrated"
       THEN /\ entry.handed.frequency[1] = f[1]
            /\ entry.handed.frequency[Len(entry.handed.frequency)] = f[2]
       ELSE entry.handed.frequency = f

(* C24: a function that reaches the solver was given all of spread, latres,  *)
(* tres, spectype and frequency and hands over the frequency (or the grid    *)
(* between the frequency bounds) of its configuration; a call whose          *)
(* configuration lacks one of them ends with KeyError, a lookup error, for   *)
(* the first key read that is missing, and the step that ends it makes no    *)
(* solver invocation.                                                        *)
C24_ConfigLookup ==
    /\ [](/\ \A i \in DOMAIN ag.log :
                /\ {ConfigKeys[k] : k \in DOMAIN ConfigKeys}
                      \subseteq DOMAIN CallerConfigs[ag.log[i].config]
                /\ FrequencyFromConfig(ag.log[i])
          /\ \A e \in ag.errors :
                /\ IsLookupError(e.raised)
                /\ e.key \notin DOMAIN CallerConfigs[e.config]
                /\ e.config = "no_spread_frequency" => e.key = "spread"
                /\ e.config # "no_spread_frequency" => e.config = "no_" \o e.key)
    /\ [][\A w \in Workers :
            (ag.workers[w].pc = "called" /\ ag'.workers[w].pc = "idle"
               /\ DOMAIN ag.workers[w].kwargs # DOMAIN FullConfigs.K1)
                => /\ ag'.log = ag.log
                   /\ \E e \in ag'.errors :
                         e.model = ag.workers[w].model /\ e.config = ag.workers[w].config]_vars

\* tophat_integrated without a frequency and tophat without spread raised
\* KeyError, and the solver was never invoked
C24_Witness ==
    /\ [model |-> "tophat_integrated", config |-> "no_frequency", raised |-> "KeyError",
        key |-> "frequency"] \in ag.errors
    /\ [model |-> "tophat", config |-> "no_spread", raised |-> "KeyError",
        key |-> "spread"] \in ag.errors
    /\ ag.log = <<>>

====
